---- MODULE Spec2Model ----
(***************************************************************************)
(* A model of go-fsm: the Builder (builder.go), the compiled StateMachine  *)
(* and its Run loop (state_machine.go), and the two Tengo glue scripts     *)
(* (scripts.go) through which every user callable is reached.              *)
(***************************************************************************)
EXTENDS Integers, Sequences, FiniteSets, TLC

VARIABLES
    b,            \* the Builder: entryFns, exitFns, transitions
    m,            \* the StateMachine: entryFns, exitFns, transitions
    invokeScript, \* globals of the machine's one compiled invoke script
    run,          \* per Run call: its locals and its position in the code
    input,        \* per Run call: the arguments it was called with
    log,          \* every execution of a user callable, in order
    calls,        \* the calls made on the Builder, in order
    ret           \* what the last call on the Builder returned

vars == <<b, m, invokeScript, run, input, log, calls, ret>>

-----------------------------------------------------------------------------
(* Bounds of the model.                                                    *)

\* most Transition calls made on a Builder
MaxTrans == 2
\* most function names given to one Builder
MaxFns == 3
\* most transitions one Run takes before the model stops following it
MaxSteps == 2
\* most calls made on a Builder that the model follows call by call
MaxCalls == 3
\* most Run calls on the machine of a Builder followed call by call
MaxRuns == 1
\* most transitions one Run on the machine of the decimals example takes
\* before the model stops following it
MaxDecimalSteps == 8

-----------------------------------------------------------------------------
(* Tengo values, as far as the engine looks at them: the type and a        *)
(* payload (a sequence of tokens).                                         *)

Undefined == [t |-> "undefined", s |-> <<>>]
IntV(n) == [t |-> "int", s |-> <<n>>]
BoolV(x) == [t |-> "bool", s |-> <<IF x THEN "true" ELSE "false">>]
StringV(cs) == [t |-> "string", s |-> cs]
ErrorV(msg) == [t |-> "error", s |-> <<msg>>]

\* objects.Object.IsFalsy, which script.Variable.Bool negates
IsFalsy(v) ==
    CASE v.t = "undefined" -> TRUE
      [] v.t = "error" -> TRUE
      [] v.t = "bool" -> v.s = <<"false">>
      [] v.t = "int" -> v.s = <<"0">>
      [] v.t = "string" -> v.s = <<>>
      [] OTHER -> FALSE

Bool(v) == ~IsFalsy(v)

IsUndefined(v) == v.t = "undefined"

IsError(v) == v.t = "error"

Foobar == StringV(<<"f", "o", "o", "b", "a", "r">>)

\* objects.Error.String() of an error object holding a string: the word
\* error, a colon and the quoted string
ErrorString(v) == "error: " \o "\"" \o v.s[1] \o "\""

-----------------------------------------------------------------------------
(* The user script: what it exports under each name.  kind is the Go type  *)
(* of the exported object, n its number of parameters.                     *)

\* The script of the tests, with the truthy and falsy of the example script,
\* with a builtin function exported under the name len, with functions of
\* no and of four parameters, and with closures of three and of two.
UserExports ==
    [fn1    |-> [kind |-> "CompiledFunction", n |-> 3],
     fn2    |-> [kind |-> "CompiledFunction", n |-> 3],
     fn3    |-> [kind |-> "CompiledFunction", n |-> 2],
     err1   |-> [kind |-> "CompiledFunction", n |-> 3],
     foo    |-> [kind |-> "Array", n |-> 0],
     truthy |-> [kind |-> "CompiledFunction", n |-> 3],
     falsy  |-> [kind |-> "CompiledFunction", n |-> 3],
     len    |-> [kind |-> "BuiltinFunction", n |-> 1],
     noargs |-> [kind |-> "CompiledFunction", n |-> 0],
     four   |-> [kind |-> "CompiledFunction", n |-> 4],
     bound  |-> [kind |-> "Closure", n |-> 3],
     bound2 |-> [kind |-> "Closure", n |-> 2]]

\* The exports of the script of the decimals example; the model's user
\* script exports them next to the ones above.
DecimalsExports ==
    [is_digit    |-> [kind |-> "CompiledFunction", n |-> 3],
     is_dot      |-> [kind |-> "CompiledFunction", n |-> 3],
     is_eol      |-> [kind |-> "CompiledFunction", n |-> 3],
     print_tx    |-> [kind |-> "CompiledFunction", n |-> 3],
     enter       |-> [kind |-> "CompiledFunction", n |-> 3],
     enter_end   |-> [kind |-> "CompiledFunction", n |-> 3],
     enter_error |-> [kind |-> "CompiledFunction", n |-> 3]]

\* user[fn]: indexing the module map with a missing key gives undefined
UserLookup(fn) ==
    IF fn \in DOMAIN UserExports
    THEN UserExports[fn]
    ELSE IF fn \in DOMAIN DecimalsExports
    THEN DecimalsExports[fn]
    ELSE [kind |-> "Undefined", n |-> 0]

\* the characters '0' to '9'
Digits == {"0", "1", "2", "3", "4", "5", "6", "7", "8", "9"}

ValidNumber ==
    StringV(<<"v", "a", "l", "i", "d", " ", "n", "u", "m", "b", "e", "r">>)

InvalidNumberPrefix ==
    <<"i", "n", "v", "a", "l", "i", "d", " ", "n", "u", "m", "b", "e", "r", ":", " ">>

\* the body of fn fails in the VM on the value v: is_digit compares v[0],
\* which is undefined for an empty string, with a character; enter slices
\* v from index 1, which is out of bounds for an empty string; and they,
\* like is_dot and is_eol, take a value that has to be a string
BodyFails(fn, v) ==
    CASE fn = "is_digit" -> v.t # "string" \/ v.s = <<>>
      [] fn = "is_dot" -> v.t # "string"
      [] fn = "is_eol" -> v.t # "string"
      [] fn = "enter" -> v.t # "string" \/ v.s = <<>>
      [] OTHER -> FALSE

\* the body of an exported 3-parameter function
UserBody(fn, src, dst, v) ==
    CASE fn = "fn1" -> Undefined
      [] fn = "fn2" -> Foobar
      [] fn = "err1" -> ErrorV("an error occurred")
      [] fn = "truthy" -> BoolV(Bool(v))
      [] fn = "falsy" -> BoolV(~Bool(v))
      [] fn = "is_digit" -> BoolV(v.s # <<>> /\ v.s[1] \in Digits)
      [] fn = "is_dot" -> BoolV(v.s # <<>> /\ v.s[1] = ".")
      [] fn = "is_eol" -> BoolV(Len(v.s) = 0)
      [] fn = "print_tx" -> Undefined
      [] fn = "enter" -> StringV(Tail(v.s))
      [] fn = "enter_end" -> ValidNumber
      [] fn = "enter_error" -> StringV(InvalidNumberPrefix \o v.s)
      [] OTHER -> Undefined

\* retrieveScript: out := user[fn]
RetrieveScript(fn) == UserLookup(fn)

\* InvokeScriptRun with a call of undefined giving undefined
InvokeScriptRunLenient(g) ==
    LET f == UserLookup(g.fn) IN
    IF f.kind = "Undefined" \/ (f.kind \in {"CompiledFunction", "Closure", "BuiltinFunction"} /\ f.n = 3)
    THEN [ok |-> TRUE, out |-> UserBody(g.fn, g.src, g.dst, g.v)]
    ELSE [ok |-> FALSE, out |-> Undefined]

\* invokeScript.Run(): out := user[fn](src, dst, immutable(v)).  The VM
\* fails when user[fn] is not callable, is called with a number of
\* arguments it does not take, or has a body that fails on the value;
\* otherwise out is what the body returns.
InvokeScriptRun(g) ==
    LET f == UserLookup(g.fn) IN
    IF /\ f.kind \in {"CompiledFunction", "Closure", "BuiltinFunction"}
       /\ f.n = 3
       /\ ~BodyFails(g.fn, g.v)
    THEN [ok |-> TRUE, out |-> UserBody(g.fn, g.src, g.dst, g.v)]
    ELSE [ok |-> FALSE, out |-> Undefined]

-----------------------------------------------------------------------------
(* Builder.                                                                *)

\* a Go map read: the zero value for a missing key
MapGet(f, k) == IF k \in DOMAIN f THEN f[k] ELSE ""

MapSet(f, k, x) == [y \in DOMAIN f \cup {k} |-> IF y = k THEN x ELSE f[y]]

NoList == <<>>

MapGetList(f, k) == IF k \in DOMAIN f THEN f[k] ELSE NoList

New ==
    [entryFns |-> <<>>, exitFns |-> <<>>, transitions |-> <<>>]

\* State keeping the name a state has when the new one is empty
StateKeepsNames(bb, name, entryFunc, exitFunc) ==
    [bb EXCEPT !.entryFns = MapSet(bb.entryFns, name,
                    IF entryFunc = "" THEN MapGet(bb.entryFns, name) ELSE entryFunc),
               !.exitFns = MapSet(bb.exitFns, name,
                    IF exitFunc = "" THEN MapGet(bb.exitFns, name) ELSE exitFunc)]

State(bb, name, entryFunc, exitFunc) ==
    [bb EXCEPT !.entryFns = MapSet(bb.entryFns, name, entryFunc),
               !.exitFns = MapSet(bb.exitFns, name, exitFunc)]

\* Transition putting the new record at the head of the list
TransitionPrepends(bb, src, dst, condition, action) ==
    [bb EXCEPT !.transitions =
        MapSet(bb.transitions, src,
               <<[dst |-> dst, condition |-> condition, action |-> action]>>
                    \o MapGetList(bb.transitions, src))]

Transition(bb, src, dst, condition, action) ==
    [bb EXCEPT !.transitions =
        MapSet(bb.transitions, src,
               Append(MapGetList(bb.transitions, src),
                      [dst |-> dst, condition |-> condition, action |-> action]))]

validateFunc(name) ==
    LET out == RetrieveScript(name) IN
    CASE out.kind = "Undefined" -> <<"function not found", name>>
      [] out.kind \in {"CompiledFunction", "Closure"} ->
            IF out.n # 3
            THEN <<"wrong number of arguments", name, 3, out.n>>
            ELSE <<>>
      [] out.kind = "BuiltinFunction" -> <<>>
      [] OTHER -> <<"not callable", name>>

\* the first failing check of a sequence of checks (<<>>: none fails)
RECURSIVE FirstError(_)
FirstError(errs) ==
    IF errs = <<>> THEN <<>>
    ELSE IF Head(errs) # <<>> THEN Head(errs)
    ELSE FirstError(Tail(errs))

CheckFunc(name) == IF name # "" THEN validateFunc(name) ELSE <<>>

\* validateState looking at the exit function before the entry function
validateStateExitFirst(bb, state) ==
    FirstError(<<
        IF state = "" THEN <<"state name must not be empty", "">> ELSE <<>>,
        CheckFunc(MapGet(bb.exitFns, state)),
        CheckFunc(bb.entryFns[state])>>)

\* one iteration of the loop over b.entryFns
validateState(bb, state) ==
    FirstError(<<
        IF state = "" THEN <<"state name must not be empty", "">> ELSE <<>>,
        CheckFunc(bb.entryFns[state]),
        CheckFunc(MapGet(bb.exitFns, state))>>)

\* validateTransition naming the state that was not found
validateTransitionNamesDst(bb, src, t) ==
    FirstError(<<
        IF t.dst \notin DOMAIN bb.entryFns THEN <<"state not found", t.dst>> ELSE <<>>,
        CheckFunc(t.condition),
        CheckFunc(t.action)>>)

\* validateTransition without the look-up of the destination
validateTransitionFuncsOnly(bb, src, t) ==
    FirstError(<<CheckFunc(t.condition), CheckFunc(t.action)>>)

\* validateTransition looking for the source, not the destination, among
\* the declared states
validateTransitionChecksSrc(bb, src, t) ==
    FirstError(<<
        IF src \notin DOMAIN bb.entryFns THEN <<"state not found", src>> ELSE <<>>,
        CheckFunc(t.condition),
        CheckFunc(t.action)>>)

\* the checks made for one transition of src's list
validateTransition(bb, src, t) ==
    FirstError(<<
        IF t.dst \notin DOMAIN bb.entryFns THEN <<"state not found", src>> ELSE <<>>,
        CheckFunc(t.condition),
        CheckFunc(t.action)>>)

\* one iteration of the loop over b.transitions
validateSource(bb, src) ==
    FirstError(
        <<IF src \notin DOMAIN bb.entryFns THEN <<"state not found", src>> ELSE <<>>>>
        \o [i \in 1..Len(bb.transitions[src]) |->
                validateTransition(bb, src, bb.transitions[src][i])])

\* The errors validate can return.  Go ranges over a map in an unspecified
\* order, so the first failing state (then the first failing source) is any
\* of the failing ones.  The empty set: validate returns nil.
validate(bb) ==
    LET stateErrs == {validateState(bb, s) : s \in DOMAIN bb.entryFns} \ {<<>>}
        srcErrs == {validateSource(bb, s) : s \in DOMAIN bb.transitions} \ {<<>>}
    IN IF stateErrs # {} THEN stateErrs ELSE srcErrs

copyFuncMap(s) == [k \in {x \in DOMAIN s : s[x] # ""} |-> s[k]]

compile(bb) ==
    [entryFns |-> copyFuncMap(bb.entryFns),
     exitFns |-> copyFuncMap(bb.exitFns),
     transitions |-> [src \in DOMAIN bb.transitions |-> bb.transitions[src]]]

\* a nil *StateMachine
NoMachine == [entryFns |-> <<>>, exitFns |-> <<>>, transitions |-> <<>>]

\* what a call on the Builder returns: the error (<<>>: nil) and the
\* machine (nil: no machine)
Returned(err, nil, mm) == [err |-> err, nil |-> nil, m |-> mm]

\* State and Transition return the Builder itself
ReturnedBuilder == Returned(<<>>, TRUE, NoMachine)

\* Compile: return b.compile()
CompileReturns(bb) == Returned(<<>>, FALSE, compile(bb))

\* Validate: return b.validate(), err being what validate returned
ValidateReturns(bb, err) == Returned(err, TRUE, NoMachine)

\* ValidateCompile compiling whatever validate returned
ValidateCompileAnyway(bb, err) == Returned(err, FALSE, compile(bb))

\* ValidateCompile: the error of validate and no machine, or what compile
\* returns
ValidateCompileReturns(bb, err) ==
    IF err # <<>> THEN Returned(err, TRUE, NoMachine) ELSE CompileReturns(bb)

\* the errors a call of validate can return, <<>> standing for nil
validateResults(bb) == IF validate(bb) = {} THEN {<<>>} ELSE validate(bb)

\* the record of a call on the Builder
StateCall(name, entryFunc, exitFunc) ==
    [op |-> "State", name |-> name, dst |-> "", f1 |-> entryFunc, f2 |-> exitFunc]

TransitionCall(src, dst, condition, action) ==
    [op |-> "Transition", name |-> src, dst |-> dst, f1 |-> condition, f2 |-> action]

PlainCall(op) == [op |-> op, name |-> "", dst |-> "", f1 |-> "", f2 |-> ""]

\* the Builder of the decimals example: six State calls and twelve
\* Transition calls on New(decimalsScript)
DecimalsCalls ==
    << StateCall("S", "enter", ""),
       StateCall("N", "enter", ""),
       StateCall("P", "enter", ""),
       StateCall("F", "enter", ""),
       StateCall("E", "enter_end", ""),
       StateCall("X", "enter_error", ""),
       TransitionCall("S", "E", "is_eol", "print_tx"),
       TransitionCall("S", "N", "is_digit", "print_tx"),
       TransitionCall("S", "X", "", "print_tx"),
       TransitionCall("N", "E", "is_eol", "print_tx"),
       TransitionCall("N", "N", "is_digit", "print_tx"),
       TransitionCall("N", "P", "is_dot", "print_tx"),
       TransitionCall("N", "X", "", "print_tx"),
       TransitionCall("P", "F", "is_digit", "print_tx"),
       TransitionCall("P", "X", "", "print_tx"),
       TransitionCall("F", "E", "is_eol", "print_tx"),
       TransitionCall("F", "F", "is_digit", "print_tx"),
       TransitionCall("F", "X", "", "print_tx") >>

\* the Builder after the first n calls of cs
RECURSIVE Built(_, _)
Built(cs, n) ==
    IF n = 0 THEN New
    ELSE IF cs[n].op = "State"
    THEN State(Built(cs, n - 1), cs[n].name, cs[n].f1, cs[n].f2)
    ELSE Transition(Built(cs, n - 1), cs[n].name, cs[n].dst, cs[n].f1, cs[n].f2)

DecimalsBuilder == Built(DecimalsCalls, Len(DecimalsCalls))

\* machine, err := fsm.New(decimalsScript). ... .Compile()
DecimalsMachine == compile(DecimalsBuilder)

-----------------------------------------------------------------------------
(* StateMachine.Run, eval, doTransition and invoke, one action per step.   *)
(* run[r].pc is the position of Run call r:                                *)
(*   eval              at the head of eval's loop over the transitions     *)
(*   exit/action/entry at the matching if-statement of doTransition        *)
(*   advance           doTransition has returned, before src = t.dst       *)
(*   set_src .. get_out  inside invoke, before that statement              *)
(*   done              Run has returned (out, err)                         *)
(* value is the local of Run, in the parameter of doTransition that its    *)
(* three steps replace and that Run assigns to value when it returns.      *)

Runs == DOMAIN run

NoTransition == [dst |-> "", condition |-> "", action |-> ""]

NoCall == [kind |-> "", src |-> "", dst |-> "", fn |-> "", in |-> Undefined]

\* Run returns a nil *script.Variable together with an error
NilVariable == [t |-> "nil", s |-> <<>>]

\* script.New(invokeScript) with src, dst, fn, v added; out is not yet set
NewInvokeScript ==
    [src |-> "", dst |-> "", fn |-> "", v |-> Undefined, out |-> Undefined]

\* NewRun on a machine that remembers the state its last Run ended in
NewRunResumes(src, in) ==
    [pc |-> "eval",
     src |-> IF run # <<>> THEN run[Len(run)].src ELSE src,
     value |-> in, i |-> 1, t |-> NoTransition,
     in |-> in, call |-> NoCall, out |-> NilVariable, err |-> "", steps |-> 0]

\* NewRun with a Run that begins by entering its start state
NewRunEnters(src, in) ==
    [pc |-> "entry", src |-> src, value |-> in, i |-> 1,
     t |-> [dst |-> src, condition |-> "", action |-> ""],
     in |-> in, call |-> NoCall, out |-> NilVariable, err |-> "", steps |-> 0]

\* the locals of Run(src, in) on entry to its loop
NewRun(src, in) ==
    [pc |-> "eval", src |-> src, value |-> in, i |-> 1, t |-> NoTransition,
     in |-> in, call |-> NoCall, out |-> NilVariable, err |-> "", steps |-> 0]

\* return nil, err from Run
ReturnError(rr, err) ==
    [rr EXCEPT !.pc = "done", !.out = NilVariable, !.err = err, !.call = NoCall]

\* m.invoke(src, dst, fn, in) is entered
Call(rr, kind, src, dst, fn, in) ==
    [rr EXCEPT !.pc = "set_src",
               !.call = [kind |-> kind, src |-> src, dst |-> dst,
                         fn |-> fn, in |-> in]]

\* EvalNone with Run returning nil for the value
EvalNoneNil(r) ==
    /\ run[r].pc = "eval"
    /\ run[r].i > Len(MapGetList(m.transitions, run[r].src))
    /\ run' = [run EXCEPT ![r].pc = "done", ![r].out = NilVariable,
                          ![r].err = "", ![r].t = NoTransition]
    /\ UNCHANGED <<b, m, invokeScript, input, log, calls, ret>>

\* eval finds no transition and Run returns the value
EvalNone(r) ==
    /\ run[r].pc = "eval"
    /\ run[r].i > Len(MapGetList(m.transitions, run[r].src))
    /\ run' = [run EXCEPT ![r].pc = "done", ![r].out = run[r].value,
                          ![r].err = "", ![r].t = NoTransition]
    /\ UNCHANGED <<b, m, invokeScript, input, log, calls, ret>>

\* EvalUnconditional passing over the transition instead of selecting it
EvalUnconditionalSkipped(r) ==
    /\ run[r].pc = "eval"
    /\ run[r].i <= Len(MapGetList(m.transitions, run[r].src))
    /\ LET t == m.transitions[run[r].src][run[r].i] IN
        /\ t.condition = ""
        /\ run' = [run EXCEPT ![r].i = run[r].i + 1]
    /\ UNCHANGED <<b, m, invokeScript, input, log, calls, ret>>

\* eval reaches a transition without a condition
EvalUnconditional(r) ==
    /\ run[r].pc = "eval"
    /\ run[r].i <= Len(MapGetList(m.transitions, run[r].src))
    /\ LET t == m.transitions[run[r].src][run[r].i] IN
        /\ t.condition = ""
        /\ run' = [run EXCEPT ![r].pc = "exit", ![r].t = t,
                              ![r].in = run[r].value]
    /\ UNCHANGED <<b, m, invokeScript, input, log, calls, ret>>

\* eval reaches a transition with a condition and invokes it
EvalCondition(r) ==
    /\ run[r].pc = "eval"
    /\ run[r].i <= Len(MapGetList(m.transitions, run[r].src))
    /\ LET t == m.transitions[run[r].src][run[r].i] IN
        /\ t.condition # ""
        /\ run' = [run EXCEPT ![r] =
                Call([run[r] EXCEPT !.t = t], "condition",
                     run[r].src, t.dst, t.condition, run[r].value)]
    /\ UNCHANGED <<b, m, invokeScript, input, log, calls, ret>>

\* DoExit looking the exit function up under dst instead of src
DoExitOfDst(r) ==
    /\ run[r].pc = "exit"
    /\ LET exitFn == MapGet(m.exitFns, run[r].t.dst) IN
        run' = [run EXCEPT ![r] =
            IF exitFn # ""
            THEN Call(run[r], "exit", run[r].src, run[r].t.dst, exitFn, run[r].in)
            ELSE [run[r] EXCEPT !.pc = "action"]]
    /\ UNCHANGED <<b, m, invokeScript, input, log, calls, ret>>

\* doTransition: the exit function of src
DoExit(r) ==
    /\ run[r].pc = "exit"
    /\ LET exitFn == MapGet(m.exitFns, run[r].src) IN
        run' = [run EXCEPT ![r] =
            IF exitFn # ""
            THEN Call(run[r], "exit", run[r].src, run[r].t.dst, exitFn, run[r].in)
            ELSE [run[r] EXCEPT !.pc = "action"]]
    /\ UNCHANGED <<b, m, invokeScript, input, log, calls, ret>>

\* doTransition: the action of the transition
DoAction(r) ==
    /\ run[r].pc = "action"
    /\ LET action == run[r].t.action IN
        run' = [run EXCEPT ![r] =
            IF action # ""
            THEN Call(run[r], "action", run[r].src, run[r].t.dst, action, run[r].in)
            ELSE [run[r] EXCEPT !.pc = "entry"]]
    /\ UNCHANGED <<b, m, invokeScript, input, log, calls, ret>>

\* DoEntry with the entry function of the state the transition leaves
DoEntryOfSrc(r) ==
    /\ run[r].pc = "entry"
    /\ LET entryFn == MapGet(m.entryFns, run[r].src) IN
        run' = [run EXCEPT ![r] =
            IF entryFn # ""
            THEN Call(run[r], "entry", run[r].src, run[r].t.dst, entryFn, run[r].in)
            ELSE [run[r] EXCEPT !.pc = "advance"]]
    /\ UNCHANGED <<b, m, invokeScript, input, log, calls, ret>>

\* doTransition: the entry function of dst
DoEntry(r) ==
    /\ run[r].pc = "entry"
    /\ LET entryFn == MapGet(m.entryFns, run[r].t.dst) IN
        run' = [run EXCEPT ![r] =
            IF entryFn # ""
            THEN Call(run[r], "entry", run[r].src, run[r].t.dst, entryFn, run[r].in)
            ELSE [run[r] EXCEPT !.pc = "advance"]]
    /\ UNCHANGED <<b, m, invokeScript, input, log, calls, ret>>

\* how many transitions the model follows a Run on the machine mm for
StepsFollowed(mm) ==
    IF mm = DecimalsMachine THEN MaxDecimalSteps ELSE MaxSteps

\* Advance with the run staying in the state it has just left
AdvanceStays(r) ==
    /\ run[r].pc = "advance"
    /\ run[r].steps < StepsFollowed(m)
    /\ run' = [run EXCEPT ![r].pc = "eval", ![r].value = run[r].in,
                          ![r].i = 1, ![r].t = NoTransition,
                          ![r].steps = run[r].steps + 1]
    /\ UNCHANGED <<b, m, invokeScript, input, log, calls, ret>>

\* Advance with a Run that returns the value after its first transition
AdvanceOnce(r) ==
    /\ run[r].pc = "advance"
    /\ run[r].steps < StepsFollowed(m)
    /\ run' = [run EXCEPT ![r].pc = "done", ![r].out = run[r].in,
                          ![r].err = "", ![r].src = run[r].t.dst,
                          ![r].t = NoTransition,
                          ![r].steps = run[r].steps + 1]
    /\ UNCHANGED <<b, m, invokeScript, input, log, calls, ret>>

\* value = what doTransition returned, src = t.dst, and the loop starts over
Advance(r) ==
    /\ run[r].pc = "advance"
    /\ run[r].steps < StepsFollowed(m)
    /\ run' = [run EXCEPT ![r].pc = "eval", ![r].value = run[r].in,
                          ![r].src = run[r].t.dst,
                          ![r].i = 1, ![r].t = NoTransition,
                          ![r].steps = run[r].steps + 1]
    /\ UNCHANGED <<b, m, invokeScript, input, log, calls, ret>>

InvokeSetSrc(r) ==
    /\ run[r].pc = "set_src"
    /\ invokeScript' = [invokeScript EXCEPT !.src = run[r].call.src]
    /\ run' = [run EXCEPT ![r].pc = "set_dst"]
    /\ UNCHANGED <<b, m, input, log, calls, ret>>

InvokeSetDst(r) ==
    /\ run[r].pc = "set_dst"
    /\ invokeScript' = [invokeScript EXCEPT !.dst = run[r].call.dst]
    /\ run' = [run EXCEPT ![r].pc = "set_fn"]
    /\ UNCHANGED <<b, m, input, log, calls, ret>>

InvokeSetFn(r) ==
    /\ run[r].pc = "set_fn"
    /\ invokeScript' = [invokeScript EXCEPT !.fn = run[r].call.fn]
    /\ run' = [run EXCEPT ![r].pc = "set_v"]
    /\ UNCHANGED <<b, m, input, log, calls, ret>>

InvokeSetV(r) ==
    /\ run[r].pc = "set_v"
    /\ invokeScript' = [invokeScript EXCEPT !.v = run[r].call.in]
    /\ run' = [run EXCEPT ![r].pc = "script_run"]
    /\ UNCHANGED <<b, m, input, log, calls, ret>>

\* the record of one execution of the invoke script: who asked for it and
\* what the script was run with
LogEntry(r, rr, g, res) ==
    [run |-> r, kind |-> rr.call.kind, step |-> rr.steps, i |-> rr.i,
     fn |-> g.fn, src |-> g.src, dst |-> g.dst, v |-> g.v,
     ok |-> res.ok, out |-> res.out]

\* err = m.invokeScript.Run(); if err != nil { return }
InvokeRun(r) ==
    /\ run[r].pc = "script_run"
    /\ LET res == InvokeScriptRun(invokeScript) IN
        /\ log' = Append(log, LogEntry(r, run[r], invokeScript, res))
        /\ IF res.ok
           THEN /\ invokeScript' = [invokeScript EXCEPT !.out = res.out]
                /\ run' = [run EXCEPT ![r].pc = "get_out"]
           ELSE /\ invokeScript' = invokeScript
                /\ run' = [run EXCEPT ![r] = ReturnError(run[r], "runtime error")]
    /\ UNCHANGED <<b, m, input, calls, ret>>

\* Return without the IsUndefined test: whatever came back replaces in
ReturnAlwaysReplaces(rr, out) ==
    CASE rr.call.kind = "condition" ->
            IF Bool(out)
            THEN [rr EXCEPT !.pc = "exit", !.call = NoCall, !.in = rr.value]
            ELSE [rr EXCEPT !.pc = "eval", !.i = rr.i + 1,
                            !.t = NoTransition, !.call = NoCall]
      [] rr.call.kind = "exit" ->
            [rr EXCEPT !.pc = "action", !.call = NoCall, !.in = out]
      [] rr.call.kind = "action" ->
            [rr EXCEPT !.pc = "entry", !.call = NoCall, !.in = out]
      [] rr.call.kind = "entry" ->
            [rr EXCEPT !.pc = "advance", !.call = NoCall, !.in = out]

\* Return with the action's result dropped
ReturnDropsAction(rr, out) ==
    CASE rr.call.kind = "condition" ->
            IF Bool(out)
            THEN [rr EXCEPT !.pc = "exit", !.call = NoCall, !.in = rr.value]
            ELSE [rr EXCEPT !.pc = "eval", !.i = rr.i + 1,
                            !.t = NoTransition, !.call = NoCall]
      [] rr.call.kind = "exit" ->
            [rr EXCEPT !.pc = "action", !.call = NoCall,
                       !.in = IF ~IsUndefined(out) THEN out ELSE rr.in]
      [] rr.call.kind = "action" ->
            [rr EXCEPT !.pc = "entry", !.call = NoCall]
      [] rr.call.kind = "entry" ->
            [rr EXCEPT !.pc = "advance", !.call = NoCall,
                       !.in = IF ~IsUndefined(out) THEN out ELSE rr.in]

\* Return with the condition's result not looked at: every condition selects
ReturnAnyCondition(rr, out) ==
    CASE rr.call.kind = "condition" ->
            [rr EXCEPT !.pc = "exit", !.call = NoCall, !.in = rr.value]
      [] rr.call.kind = "exit" ->
            [rr EXCEPT !.pc = "action", !.call = NoCall,
                       !.in = IF ~IsUndefined(out) THEN out ELSE rr.in]
      [] rr.call.kind = "action" ->
            [rr EXCEPT !.pc = "entry", !.call = NoCall,
                       !.in = IF ~IsUndefined(out) THEN out ELSE rr.in]
      [] rr.call.kind = "entry" ->
            [rr EXCEPT !.pc = "advance", !.call = NoCall,
                       !.in = IF ~IsUndefined(out) THEN out ELSE rr.in]

\* Return with the result of the condition that selects becoming the value
ReturnConditionReplaces(rr, out) ==
    CASE rr.call.kind = "condition" ->
            IF Bool(out)
            THEN [rr EXCEPT !.pc = "exit", !.call = NoCall, !.in = out]
            ELSE [rr EXCEPT !.pc = "eval", !.i = rr.i + 1,
                            !.t = NoTransition, !.call = NoCall]
      [] rr.call.kind = "exit" ->
            [rr EXCEPT !.pc = "action", !.call = NoCall,
                       !.in = IF ~IsUndefined(out) THEN out ELSE rr.in]
      [] rr.call.kind = "action" ->
            [rr EXCEPT !.pc = "entry", !.call = NoCall,
                       !.in = IF ~IsUndefined(out) THEN out ELSE rr.in]
      [] rr.call.kind = "entry" ->
            [rr EXCEPT !.pc = "advance", !.call = NoCall,
                       !.in = IF ~IsUndefined(out) THEN out ELSE rr.in]

\* what the caller of invoke does with a result that is not an error
Return(rr, out) ==
    CASE rr.call.kind = "condition" ->
            IF Bool(out)
            THEN [rr EXCEPT !.pc = "exit", !.call = NoCall, !.in = rr.value]
            ELSE [rr EXCEPT !.pc = "eval", !.i = rr.i + 1,
                            !.t = NoTransition, !.call = NoCall]
      [] rr.call.kind = "exit" ->
            [rr EXCEPT !.pc = "action", !.call = NoCall,
                       !.in = IF ~IsUndefined(out) THEN out ELSE rr.in]
      [] rr.call.kind = "action" ->
            [rr EXCEPT !.pc = "entry", !.call = NoCall,
                       !.in = IF ~IsUndefined(out) THEN out ELSE rr.in]
      [] rr.call.kind = "entry" ->
            [rr EXCEPT !.pc = "advance", !.call = NoCall,
                       !.in = IF ~IsUndefined(out) THEN out ELSE rr.in]

\* InvokeGetOut without the test for an error object after a hook
InvokeGetOutHookErrorKept(r) ==
    /\ run[r].pc = "get_out"
    /\ LET out == invokeScript.out IN
        run' = [run EXCEPT ![r] =
            IF IsError(out) /\ run[r].call.kind = "condition"
            THEN ReturnError(run[r], ErrorString(out))
            ELSE Return(run[r], out)]
    /\ UNCHANGED <<b, m, invokeScript, input, log, calls, ret>>

\* InvokeGetOut without the test for an error object after a condition
InvokeGetOutConditionErrorKept(r) ==
    /\ run[r].pc = "get_out"
    /\ LET out == invokeScript.out IN
        run' = [run EXCEPT ![r] =
            IF IsError(out) /\ run[r].call.kind # "condition"
            THEN ReturnError(run[r], ErrorString(out))
            ELSE Return(run[r], out)]
    /\ UNCHANGED <<b, m, invokeScript, input, log, calls, ret>>

\* out = m.invokeScript.Get("out"), an error object becoming Run's error
InvokeGetOut(r) ==
    /\ run[r].pc = "get_out"
    /\ LET out == invokeScript.out IN
        run' = [run EXCEPT ![r] =
            IF IsError(out)
            THEN ReturnError(run[r], ErrorString(out))
            ELSE Return(run[r], out)]
    /\ UNCHANGED <<b, m, invokeScript, input, log, calls, ret>>

Next ==
    \/ \E r \in Runs : EvalNone(r)
    \/ \E r \in Runs : EvalUnconditional(r)
    \/ \E r \in Runs : EvalCondition(r)
    \/ \E r \in Runs : DoExit(r)
    \/ \E r \in Runs : DoAction(r)
    \/ \E r \in Runs : DoEntry(r)
    \/ \E r \in Runs : Advance(r)
    \/ \E r \in Runs : InvokeSetSrc(r)
    \/ \E r \in Runs : InvokeSetDst(r)
    \/ \E r \in Runs : InvokeSetFn(r)
    \/ \E r \in Runs : InvokeSetV(r)
    \/ \E r \in Runs : InvokeRun(r)
    \/ \E r \in Runs : InvokeGetOut(r)

-----------------------------------------------------------------------------
(* The same four functions as operators: what a Run call computes when     *)
(* nothing else touches the invoke script between its statements.          *)

invoke(src, dst, fn, in) ==
    LET res == InvokeScriptRun([src |-> src, dst |-> dst, fn |-> fn,
                                v |-> in, out |-> Undefined])
    IN  IF ~res.ok THEN [err |-> "runtime error", out |-> NilVariable]
        ELSE IF IsError(res.out) THEN [err |-> ErrorString(res.out), out |-> NilVariable]
        ELSE [err |-> "", out |-> res.out]

\* eval's loop from the i-th transition of the list on; i = 0: none found
RECURSIVE evalFrom(_, _, _, _)
evalFrom(list, i, src, in) ==
    IF i > Len(list) THEN [err |-> "", i |-> 0]
    ELSE IF list[i].condition = "" THEN [err |-> "", i |-> i]
    ELSE LET res == invoke(src, list[i].dst, list[i].condition, in) IN
         IF res.err # "" THEN [err |-> res.err, i |-> 0]
         ELSE IF Bool(res.out) THEN [err |-> "", i |-> i]
         ELSE evalFrom(list, i + 1, src, in)

eval(mm, src, in) == evalFrom(MapGetList(mm.transitions, src), 1, src, in)

\* one step of doTransition on its parameter in: res.out stands for in
doStep(res, src, dst, fn) ==
    IF res.err # "" \/ fn = "" THEN res
    ELSE LET got == invoke(src, dst, fn, res.out) IN
         IF got.err # "" THEN got
         ELSE IF ~IsUndefined(got.out) THEN got
         ELSE res

doTransition(mm, src, dst, action, in) ==
    doStep(doStep(doStep([err |-> "", out |-> in],
                         src, dst, MapGet(mm.exitFns, src)),
                  src, dst, action),
           src, dst, MapGet(mm.entryFns, dst))

\* Run(src, in) followed for at most fuel transitions
RECURSIVE RunFor(_, _, _, _)
RunFor(mm, src, value, fuel) ==
    LET e == eval(mm, src, value) IN
    IF e.err # "" THEN [halted |-> TRUE, out |-> NilVariable, err |-> e.err]
    ELSE IF e.i = 0 THEN [halted |-> TRUE, out |-> value, err |-> ""]
    ELSE LET t == mm.transitions[src][e.i]
             d == doTransition(mm, src, t.dst, t.action, value)
         IN  IF d.err # "" THEN [halted |-> TRUE, out |-> NilVariable, err |-> d.err]
             ELSE IF fuel = 0 THEN [halted |-> FALSE, out |-> NilVariable, err |-> ""]
             ELSE RunFor(mm, t.dst, d.out, fuel - 1)

-----------------------------------------------------------------------------
(* The Builders the model starts from: two declared states, at most        *)
(* MaxTrans Transition calls, and at most MaxFns function names in all.    *)

StateNames == {"s1", "s2"}

FuncNames == {"fn1", "fn2", "err1", "fn3"}

StartState == "s1"

Inputs == {IntV("123")}

\* the i-th Transition call of a chain
NthCall(i) == <<"1st", "2nd", "3rd", "4th">>[i]

\* where a Builder of n transitions can name a function
Slots(n) ==
    (StateNames \X {"entry", "exit"})
        \cup ({NthCall(i) : i \in 1..n} \X {"condition", "action"})

\* the sets of at most MaxFns slots that are given a name
NamedSlots(n) == {T \in SUBSET Slots(n) : Cardinality(T) <= MaxFns}

Named(f, slot) == IF slot \in DOMAIN f THEN f[slot] ELSE ""

\* New(script).State(..).State(..).Transition(..)...: the first i Transition
\* calls with the sources and destinations ends and the names f
RECURSIVE Chain(_, _, _)
Chain(ends, f, i) ==
    IF i = 0
    THEN State(State(New, "s1", Named(f, <<"s1", "entry">>), Named(f, <<"s1", "exit">>)),
               "s2", Named(f, <<"s2", "entry">>), Named(f, <<"s2", "exit">>))
    ELSE Transition(Chain(ends, f, i - 1), ends[i][1], ends[i][2],
                    Named(f, <<NthCall(i), "condition">>),
                    Named(f, <<NthCall(i), "action">>))

\* the calls that Chain(ends, f, i) is made of
RECURSIVE ChainCalls(_, _, _)
ChainCalls(ends, f, i) ==
    IF i = 0
    THEN <<StateCall("s1", Named(f, <<"s1", "entry">>), Named(f, <<"s1", "exit">>)),
           StateCall("s2", Named(f, <<"s2", "entry">>), Named(f, <<"s2", "exit">>))>>
    ELSE Append(ChainCalls(ends, f, i - 1),
                TransitionCall(ends[i][1], ends[i][2],
                               Named(f, <<NthCall(i), "condition">>),
                               Named(f, <<NthCall(i), "action">>)))

\* the sources and destinations of n Transition calls, the first one
\* leaving the start state
Ends(n) ==
    {e \in [1..n -> StateNames \X StateNames] : n > 0 => e[1][1] = StartState}

\* the state after construction: a Builder, and the machine compiled from it
InitBuilt ==
    /\ \E n \in 0..MaxTrans : \E ends \in Ends(n) :
         \E S \in NamedSlots(n) : \E f \in [S -> FuncNames] :
            /\ b = Chain(ends, f, n)
            /\ calls = Append(ChainCalls(ends, f, n), PlainCall("Compile"))
    /\ ret = CompileReturns(b)
    /\ m = ret.m
    /\ invokeScript = NewInvokeScript
    /\ log = <<>>

Init ==
    /\ InitBuilt
    /\ \E src \in {StartState}, in \in Inputs :
        /\ input = [r \in {1} |-> [src |-> src, in |-> in]]
        /\ run = [r \in {1} |-> NewRun(src, in)]

Spec == Init /\ [][Next]_vars

-----------------------------------------------------------------------------
(* The Builder, call by call, from New(script) on.                         *)

BuilderStateNames == {"", "s1", "s2"}

BuilderEnds == {"s1", "s2"}

BuilderFuncNames == {"", "fn1", "fn4"}

\* CallState on a Builder whose two maps are the ones the machine holds
CallStateShared(name, entryFunc, exitFunc) ==
    /\ Len(calls) < MaxCalls
    /\ b' = State(b, name, entryFunc, exitFunc)
    /\ m' = IF \E i \in 1..Len(calls) : calls[i].op = "Compile"
            THEN [m EXCEPT !.entryFns = b'.entryFns, !.exitFns = b'.exitFns]
            ELSE m
    /\ calls' = Append(calls, StateCall(name, entryFunc, exitFunc))
    /\ ret' = ReturnedBuilder
    /\ UNCHANGED <<invokeScript, run, input, log>>

\* b.State(name, entryFunc, exitFunc)
CallState(name, entryFunc, exitFunc) ==
    /\ Len(calls) < MaxCalls
    /\ b' = State(b, name, entryFunc, exitFunc)
    /\ calls' = Append(calls, StateCall(name, entryFunc, exitFunc))
    /\ ret' = ReturnedBuilder
    /\ UNCHANGED <<m, invokeScript, run, input, log>>

\* b.Transition(src, dst, condition, action)
CallTransition(src, dst, condition, action) ==
    /\ Len(calls) < MaxCalls
    /\ b' = Transition(b, src, dst, condition, action)
    /\ calls' = Append(calls, TransitionCall(src, dst, condition, action))
    /\ ret' = ReturnedBuilder
    /\ UNCHANGED <<m, invokeScript, run, input, log>>

\* CallValidate with validate deleting the empty function names as it goes
CallValidateDropsEmpty ==
    /\ Len(calls) < MaxCalls
    /\ \E err \in validateResults(b) : ret' = ValidateReturns(b, err)
    /\ calls' = Append(calls, PlainCall("Validate"))
    /\ b' = [b EXCEPT !.entryFns = copyFuncMap(b.entryFns),
                      !.exitFns = copyFuncMap(b.exitFns)]
    /\ UNCHANGED <<m, invokeScript, run, input, log>>

\* b.Validate()
CallValidate ==
    /\ Len(calls) < MaxCalls
    /\ \E err \in validateResults(b) : ret' = ValidateReturns(b, err)
    /\ calls' = Append(calls, PlainCall("Validate"))
    /\ UNCHANGED <<b, m, invokeScript, run, input, log>>

\* b.Compile(), the caller keeping the machine in m.  m is the machine
\* that the Run calls are made on, so it is compiled before the first Run.
CallCompile ==
    /\ Len(calls) < MaxCalls
    /\ run = <<>>
    /\ ret' = CompileReturns(b)
    /\ m' = ret'.m
    /\ calls' = Append(calls, PlainCall("Compile"))
    /\ UNCHANGED <<b, invokeScript, run, input, log>>

\* b.ValidateCompile(), the caller keeping the machine in m if there is one
CallValidateCompile ==
    /\ Len(calls) < MaxCalls
    /\ run = <<>>
    /\ \E err \in validateResults(b) : ret' = ValidateCompileReturns(b, err)
    /\ m' = IF ret'.nil THEN m ELSE ret'.m
    /\ calls' = Append(calls, PlainCall("ValidateCompile"))
    /\ UNCHANGED <<b, invokeScript, run, input, log>>

\* New(script): empty maps, and no machine yet
InitBuilder ==
    /\ b = New
    /\ calls = <<>>
    /\ ret = ReturnedBuilder
    /\ m = NoMachine
    /\ invokeScript = NewInvokeScript
    /\ run = <<>>
    /\ input = <<>>
    /\ log = <<>>

NextBuilder ==
    \/ \E name \in BuilderStateNames : \E entryFunc, exitFunc \in BuilderFuncNames :
            CallState(name, entryFunc, exitFunc)
    \/ \E src, dst \in BuilderEnds : \E condition, action \in BuilderFuncNames :
            CallTransition(src, dst, condition, action)
    \/ CallValidate
    \/ CallCompile
    \/ CallValidateCompile

SpecBuilder == InitBuilder /\ [][NextBuilder]_vars

\* m.Run(src, in) is called, on the machine that Compile returned, once the
\* Run calls made before have returned; most: how many the model follows
StartRun(src, in, most) ==
    /\ \E i \in 1..Len(calls) : calls[i].op = "Compile"
    /\ Len(run) < most
    /\ \A r \in Runs : run[r].pc = "done"
    /\ run' = Append(run, NewRun(src, in))
    /\ input' = Append(input, [src |-> src, in |-> in])
    /\ UNCHANGED <<b, m, invokeScript, log, calls, ret>>

\* the Builder call by call, Compile, and a Run of the machine, with the
\* Builder still being called while the machine runs
NextLifecycle ==
    \/ \E name \in BuilderStateNames : \E entryFunc, exitFunc \in BuilderFuncNames :
            CallState(name, entryFunc, exitFunc)
    \/ \E src, dst \in BuilderEnds : \E condition, action \in BuilderFuncNames :
            CallTransition(src, dst, condition, action)
    \/ CallCompile
    \/ \E in \in Inputs : StartRun(StartState, in, MaxRuns)
    \/ \E r \in Runs : EvalNone(r)
    \/ \E r \in Runs : EvalUnconditional(r)
    \/ \E r \in Runs : EvalCondition(r)
    \/ \E r \in Runs : DoExit(r)
    \/ \E r \in Runs : DoAction(r)
    \/ \E r \in Runs : DoEntry(r)
    \/ \E r \in Runs : Advance(r)
    \/ \E r \in Runs : InvokeSetSrc(r)
    \/ \E r \in Runs : InvokeSetDst(r)
    \/ \E r \in Runs : InvokeSetFn(r)
    \/ \E r \in Runs : InvokeSetV(r)
    \/ \E r \in Runs : InvokeRun(r)
    \/ \E r \in Runs : InvokeGetOut(r)

SpecLifecycle == InitBuilder /\ [][NextLifecycle]_vars

\* the names the model refers to a function of the user script by: the
\* exported ones and fn4, which the script does not export
AllFuncNames == DOMAIN UserExports \cup {"fn4"}

\* the entry and exit names of a State call that names at most one function
OneFuncPairs ==
    {p \in (AllFuncNames \cup {""}) \X (AllFuncNames \cup {""}) : p[1] = "" \/ p[2] = ""}

\* State and Validate calls only, over all the names
NextValidateFunc ==
    \/ \E name \in BuilderEnds : \E p \in OneFuncPairs : CallState(name, p[1], p[2])
    \/ CallValidate

SpecValidateFunc == InitBuilder /\ [][NextValidateFunc]_vars

\* names for a Builder that names two functions at once: one the script
\* exports with three parameters, one it does not export, one that is
\* not a function
OrderFuncNames == {"", "fn1", "fn4", "foo"}

\* State, Transition and Validate calls with two names each
NextValidateOrder ==
    \/ \E name \in BuilderEnds : \E entryFunc, exitFunc \in OrderFuncNames :
            CallState(name, entryFunc, exitFunc)
    \/ \E dst \in BuilderEnds : \E condition, action \in OrderFuncNames :
            CallTransition(StartState, dst, condition, action)
    \/ CallValidate

SpecValidateOrder == InitBuilder /\ [][NextValidateOrder]_vars

-----------------------------------------------------------------------------
(* Two Run calls at once on one machine.                                   *)

\* most function names given to a Builder whose machine is run twice at once
MaxConcFns == 1

\* most Transition calls on a Builder whose machine is run twice at once
MaxConcTrans == 1

ConcFuncNames == {"falsy", "err1"}

ConcInputs == {IntV("0"), IntV("123")}

InitConc ==
    /\ \E n \in 0..MaxConcTrans : \E ends \in Ends(n) :
         \E S \in {T \in SUBSET Slots(n) : Cardinality(T) <= MaxConcFns} :
         \E f \in [S -> ConcFuncNames] :
            /\ b = Chain(ends, f, n)
            /\ calls = Append(ChainCalls(ends, f, n), PlainCall("Compile"))
    /\ ret = CompileReturns(b)
    /\ m = ret.m
    /\ invokeScript = NewInvokeScript
    /\ log = <<>>
    /\ input \in [{1, 2} -> [src : StateNames, in : ConcInputs]]
    /\ run = [r \in {1, 2} |-> NewRun(input[r].src, input[r].in)]

SpecConc == InitConc /\ [][Next]_vars

-----------------------------------------------------------------------------
(* Run calls one after the other on one machine.                           *)

\* most Run calls made one after the other
MaxSeqRuns == 3
\* most Transition calls on a Builder whose machine is run several times
MaxSeqTrans == 2
\* most function names given to such a Builder
MaxSeqFns == 2

SeqFuncNames == {"fn2", "falsy", "err1"}

InitSeq ==
    /\ \E n \in 0..MaxSeqTrans : \E ends \in Ends(n) :
         \E S \in {T \in SUBSET Slots(n) : Cardinality(T) <= MaxSeqFns} :
         \E f \in [S -> SeqFuncNames] :
            /\ b = Chain(ends, f, n)
            /\ calls = Append(ChainCalls(ends, f, n), PlainCall("Compile"))
    /\ ret = CompileReturns(b)
    /\ m = ret.m
    /\ invokeScript = NewInvokeScript
    /\ log = <<>>
    /\ run = <<>>
    /\ input = <<>>

NextSeq ==
    \/ \E in \in ConcInputs : StartRun(StartState, in, MaxSeqRuns)
    \/ \E r \in Runs : EvalNone(r)
    \/ \E r \in Runs : EvalUnconditional(r)
    \/ \E r \in Runs : EvalCondition(r)
    \/ \E r \in Runs : DoExit(r)
    \/ \E r \in Runs : DoAction(r)
    \/ \E r \in Runs : DoEntry(r)
    \/ \E r \in Runs : Advance(r)
    \/ \E r \in Runs : InvokeSetSrc(r)
    \/ \E r \in Runs : InvokeSetDst(r)
    \/ \E r \in Runs : InvokeSetFn(r)
    \/ \E r \in Runs : InvokeSetV(r)
    \/ \E r \in Runs : InvokeRun(r)
    \/ \E r \in Runs : InvokeGetOut(r)

SpecSeq == InitSeq /\ [][NextSeq]_vars

-----------------------------------------------------------------------------
(* Runs of the machines that ValidateCompile returns.                      *)

ValidatedFuncNames == {"fn1", "fn3", "fn4", "foo", "len"}

\* ValidateCompile: compile only when validate returns nil
InitValidated ==
    /\ \E n \in 0..MaxTrans : \E ends \in Ends(n) :
         \E S \in NamedSlots(n) : \E f \in [S -> ValidatedFuncNames] :
            /\ b = Chain(ends, f, n)
            /\ calls = Append(ChainCalls(ends, f, n), PlainCall("ValidateCompile"))
    /\ validate(b) = {}
    /\ ret = ValidateCompileReturns(b, <<>>)
    /\ m = ret.m
    /\ invokeScript = NewInvokeScript
    /\ log = <<>>
    /\ \E src \in {StartState}, in \in Inputs :
        /\ input = [r \in {1} |-> [src |-> src, in |-> in]]
        /\ run = [r \in {1} |-> NewRun(src, in)]

SpecValidated == InitValidated /\ [][Next]_vars

-----------------------------------------------------------------------------
(* Runs of the machines that ValidateCompile returns for Builders on which *)
(* some of three states are declared and the transitions are between any   *)
(* of the three.                                                           *)

DeclarableNames == <<"s1", "s2", "s3">>

DeclaredFuncNames == {"", "fn1", "fn2"}

\* a State call, without functions, for each state of D
DeclareCalls(D) ==
    LET names == SelectSeq(DeclarableNames, LAMBDA x : x \in D)
    IN  [i \in 1..Len(names) |-> StateCall(names[i], "", "")]

\* n Transition calls with the ends e and the conditions c
ConnectCalls(e, c, n) ==
    [i \in 1..n |-> TransitionCall(e[i][1], e[i][2], c[i], "")]

\* ValidateCompile has returned a machine, and Run is called on it
InitDeclared ==
    /\ \E D \in SUBSET {DeclarableNames[i] : i \in 1..Len(DeclarableNames)} :
        \E n \in 0..MaxTrans :
        \E e \in [1..n -> {DeclarableNames[i] : i \in 1..Len(DeclarableNames)}
                            \X {DeclarableNames[i] : i \in 1..Len(DeclarableNames)}] :
        \E c \in [1..n -> DeclaredFuncNames] :
            LET cs == DeclareCalls(D) \o ConnectCalls(e, c, n) IN
            /\ b = Built(cs, Len(cs))
            /\ calls = Append(cs, PlainCall("ValidateCompile"))
    /\ validate(b) = {}
    /\ ret = ValidateCompileReturns(b, <<>>)
    /\ m = ret.m
    /\ invokeScript = NewInvokeScript
    /\ log = <<>>
    /\ \E src \in {DeclarableNames[i] : i \in 1..Len(DeclarableNames)}, in \in Inputs :
        /\ input = [r \in {1} |-> [src |-> src, in |-> in]]
        /\ run = [r \in {1} |-> NewRun(src, in)]

SpecDeclared == InitDeclared /\ [][Next]_vars

\* The same runs, with the goroutine that executes Run never stopping for
\* ever while it has a statement to execute and every execution of the
\* invoke script returning.
SpecDeclaredFair == InitDeclared /\ [][Next]_vars /\ WF_vars(Next)

-----------------------------------------------------------------------------
(* The decimals example: Run("S", v) on its machine.                       *)

\* "123.456" and "12.34.56" of the example, the empty string and ".5"
DecimalInputs ==
    { StringV(<<"1", "2", "3", ".", "4", "5", "6">>),
      StringV(<<"1", "2", ".", "3", "4", ".", "5", "6">>),
      StringV(<<>>),
      StringV(<<".", "5">>) }

InitDecimals ==
    /\ b = DecimalsBuilder
    /\ calls = Append(DecimalsCalls, PlainCall("Compile"))
    /\ ret = CompileReturns(b)
    /\ m = ret.m
    /\ invokeScript = NewInvokeScript
    /\ log = <<>>
    /\ \E in \in DecimalInputs :
        /\ input = [r \in {1} |-> [src |-> "S", in |-> in]]
        /\ run = [r \in {1} |-> NewRun("S", in)]

SpecDecimals == InitDecimals /\ [][Next]_vars


-----------------------------------------------------------------------------
(* What the claims are stated with.                                        *)

HookKinds == {"exit", "action", "entry"}

InvokePcs == {"set_src", "set_dst", "set_fn", "set_v", "script_run", "get_out"}

\* the run is inside doTransition, or has just left it
InDoTransition(rr) ==
    \/ rr.pc \in {"exit", "action", "entry", "advance"}
    \/ rr.pc \in InvokePcs /\ rr.call.kind \in HookKinds

\* the executions run r asked for in its k-th round, of the given kinds
Logged(r, k, kinds) ==
    SelectSeq(log, LAMBDA e : e.run = r /\ e.step = k /\ e.kind \in kinds)

\* the executions run r asked for, in order
LoggedBy(r) == SelectSeq(log, LAMBDA e : e.run = r)

\* the list of the current state, as the Transition calls built it
Declared(rr) == MapGetList(b.transitions, rr.src)

\* an execution that made Run return an error
Failed(e) == ~e.ok \/ IsError(e.out)

\* the condition of t holds for (src, v)
Matches(t, src, v) ==
    \/ t.condition = ""
    \/ LET res == invoke(src, t.dst, t.condition, v) IN
        res.err = "" /\ Bool(res.out)

Swap(list, i, j) ==
    [k \in 1..Len(list) |->
        IF k = i THEN list[j] ELSE IF k = j THEN list[i] ELSE list[k]]

\* C1: when Run has just selected a transition, it is the first of the
\* source's list, in Transition-call order, that has no condition or whose
\* condition returned a truthy value; every earlier condition was invoked
\* exactly once, in order, with (src, its dst, the value) and returned
\* falsy, no later one was invoked; and were the selected transition
\* swapped with a later one that matches too, that one (its destination)
\* would be selected instead.
C1_FirstMatchWins ==
    \A r \in Runs :
        run[r].pc = "exit" =>
            LET rr == run[r]
                list == Declared(rr)
                cs == Logged(r, rr.steps, {"condition"})
            IN  /\ rr.i \in 1..Len(list)
                /\ rr.t = list[rr.i]
                /\ Len(cs) = IF rr.t.condition = "" THEN rr.i - 1 ELSE rr.i
                /\ \A j \in 1..Len(cs) :
                    /\ list[j].condition # ""
                    /\ cs[j].i = j
                    /\ cs[j].fn = list[j].condition
                    /\ cs[j].src = rr.src
                    /\ cs[j].dst = list[j].dst
                    /\ cs[j].v = rr.value
                    /\ ~Failed(cs[j])
                    /\ Bool(cs[j].out) <=> (j = rr.i)
                /\ \A j \in (rr.i + 1)..Len(list) :
                    Matches(list[j], rr.src, rr.value) =>
                        LET sw == Swap(list, rr.i, j)
                            e == evalFrom(sw, 1, rr.src, rr.value)
                        IN  /\ e.err = ""
                            /\ e.i = rr.i
                            /\ sw[e.i] = list[j]

\* a second transition is selected after the first one's condition failed
C1_Witness ==
    \E r \in Runs :
        /\ run[r].pc = "exit"
        /\ run[r].i = Len(Declared(run[r]))
        /\ run[r].i > 1
        /\ run[r].t.condition # ""
        /\ run[r].t.dst # Declared(run[r])[1].dst

\* one step of doTransition as the log should show it
ExpectedStep(acc, kind, src, dst, fn) ==
    IF fn = "" \/ acc.err THEN acc
    ELSE LET res == InvokeScriptRun([src |-> src, dst |-> dst, fn |-> fn,
                                     v |-> acc.in, out |-> Undefined])
         IN  [seq |-> Append(acc.seq, [kind |-> kind, fn |-> fn, src |-> src,
                                       dst |-> dst, v |-> acc.in]),
              in |-> IF res.ok /\ ~IsUndefined(res.out) THEN res.out ELSE acc.in,
              err |-> ~res.ok \/ IsError(res.out)]

\* exit of src, action, entry of dst, each given what the one before left
ExpectedSteps(src, t, value) ==
    ExpectedStep(
        ExpectedStep(
            ExpectedStep([seq |-> <<>>, in |-> value, err |-> FALSE],
                         "exit", src, t.dst, MapGet(b.exitFns, src)),
            "action", src, t.dst, t.action),
        "entry", src, t.dst, MapGet(b.entryFns, t.dst))

Shown(es) ==
    [k \in 1..Len(es) |->
        [kind |-> es[k].kind, fn |-> es[k].fn, src |-> es[k].src,
         dst |-> es[k].dst, v |-> es[k].v]]

\* C2: from the selection of a transition until doTransition has returned,
\* the current state is still the source of the selected transition, and
\* what has been executed for it is a prefix of: the exit function of src,
\* the action, the entry function of dst (those that are named), each once
\* and with (src, dst, the value the step before left); when doTransition
\* has returned all of them have run.
C2_ExitActionEntry ==
    \A r \in Runs :
        InDoTransition(run[r]) =>
            LET rr == run[r]
                want == ExpectedSteps(rr.src, rr.t, rr.value)
                got == Shown(Logged(r, rr.steps, HookKinds))
            IN  /\ rr.i \in 1..Len(Declared(rr))
                /\ rr.t = Declared(rr)[rr.i]
                /\ Len(got) <= Len(want.seq)
                /\ got = SubSeq(want.seq, 1, Len(got))
                /\ rr.pc = "advance" => got = want.seq /\ rr.in = want.in

\* a self-transition whose exit, action and entry functions have all run
C2_Witness ==
    \E r \in Runs :
        /\ run[r].pc = "advance"
        /\ run[r].t.dst = run[r].src
        /\ Len(Logged(r, run[r].steps, HookKinds)) = 3


\* what Run returns as its error after the execution e failed
ErrorOf(e) == IF e.ok THEN "error: \"" \o e.out.s[1] \o "\"" ELSE "runtime error"

\* the value the run goes on with
Current(rr) ==
    IF rr.pc = "done" THEN rr.out
    ELSE IF rr.pc \in InvokePcs THEN rr.call.in
    ELSE IF InDoTransition(rr) THEN rr.in
    ELSE rr.value

\* C3: with Run calls executing at once on one machine, every execution of
\* the invoke script runs with the src, dst, fn and v of the call that asked
\* for it, every call reads the out its own execution wrote, and a call
\* that has returned has returned what it returns when run alone.
C3_RunsIsolated ==
    \A r \in Runs :
        /\ run[r].pc = "script_run" =>
            /\ invokeScript.src = run[r].call.src
            /\ invokeScript.dst = run[r].call.dst
            /\ invokeScript.fn = run[r].call.fn
            /\ invokeScript.v = run[r].call.in
        /\ run[r].pc = "get_out" =>
            LET mine == LoggedBy(r) IN invokeScript.out = mine[Len(mine)].out
        /\ run[r].pc = "done" =>
            LET alone == RunFor(m, input[r].src, input[r].in, MaxSteps) IN
            alone.halted => run[r].out = alone.out /\ run[r].err = alone.err

\* a Run call has returned, without an error, another value than the one
\* it returns when run alone
C3_Witness ==
    \E r \in Runs :
        LET alone == RunFor(m, input[r].src, input[r].in, MaxSteps) IN
        /\ run[r].pc = "done"
        /\ alone.halted
        /\ alone.err = ""
        /\ run[r].err = ""
        /\ run[r].out # alone.out

\* C4: an exit, action or entry function that returns an error object, or
\* whose invocation fails, is the last thing the run executes: Run returns
\* that error and a nil value, with the current state still the source and
\* no step of the sequence, and no condition, executed after it.
C4_HookErrorAborts ==
    \A r \in Runs :
        LET mine == LoggedBy(r) IN
        \A k \in 1..Len(mine) :
            (mine[k].kind \in HookKinds /\ Failed(mine[k])) =>
                /\ k = Len(mine)
                /\ run[r].pc \in {"get_out", "done"}
                /\ run[r].pc = "done" =>
                    /\ run[r].err = ErrorOf(mine[k])
                    /\ run[r].out = NilVariable
                    /\ run[r].src = mine[k].src
                    /\ run[r].steps = mine[k].step

\* the action returned an error after the exit function ran, and the entry
\* function of the destination is named but was not run
C4_Witness ==
    \E r \in Runs :
        LET mine == LoggedBy(r) IN
        /\ run[r].pc = "done"
        /\ Len(mine) = 2
        /\ mine[1].kind = "exit"
        /\ mine[2].kind = "action"
        /\ IsError(mine[2].out)
        /\ MapGet(m.entryFns, mine[2].dst) # ""

\* the function names a Builder holds
NamesOf(bb) ==
    {bb.entryFns[x] : x \in DOMAIN bb.entryFns}
        \cup {bb.exitFns[x] : x \in DOMAIN bb.exitFns}
        \cup UNION {{bb.transitions[x][i].condition : i \in 1..Len(bb.transitions[x])}
                        \cup {bb.transitions[x][i].action : i \in 1..Len(bb.transitions[x])} :
                            x \in DOMAIN bb.transitions}

\* the user script exports a callable of exactly three parameters as fn
ThreeParameters(fn) ==
    LET f == UserLookup(fn) IN
    f.kind \in {"CompiledFunction", "Closure", "BuiltinFunction"} /\ f.n = 3

\* C5: when validate has returned nil, every non-empty name of the Builder
\* is a callable of exactly three parameters in the user script, and no
\* run of the machine compiled from it executes anything else.
C5_ValidatedCallables ==
    /\ validate(b) = {} =>
            \A fn \in NamesOf(b) \ {""} : ThreeParameters(fn)
    /\ \A k \in 1..Len(log) : ThreeParameters(log[k].fn) /\ log[k].ok

\* a machine that ValidateCompile returned has run the builtin function
\* exported as len, and the call has failed
C5_Witness ==
    \E r \in Runs :
        /\ validate(b) = {}
        /\ run[r].pc = "done"
        /\ run[r].err = "runtime error"
        /\ log # <<>>
        /\ log[Len(log)].fn = "len"
        /\ ~log[Len(log)].ok

\* C6: after an exit, action or entry function returned undefined, the
\* value is what it was before the call: the next execution is given that
\* value, and so is the caller of Run when nothing more is executed.
C6_UndefinedKeepsValue ==
    \A r \in Runs :
        LET mine == LoggedBy(r) IN
        \A k \in 1..Len(mine) :
            (mine[k].kind \in HookKinds /\ mine[k].ok /\ IsUndefined(mine[k].out)) =>
                IF k < Len(mine)
                THEN mine[k + 1].v = mine[k].v
                ELSE run[r].pc # "get_out" =>
                        Current(run[r]) = mine[k].v /\ run[r].err = ""

\* a run has returned after an entry function that returned undefined and
\* a condition evaluated after it
C6_Witness ==
    \E r \in Runs :
        LET mine == LoggedBy(r) IN
        /\ run[r].pc = "done"
        /\ run[r].err = ""
        /\ Len(mine) = 2
        /\ mine[1].kind = "entry"
        /\ IsUndefined(mine[1].out)
        /\ mine[2].kind = "condition"
        /\ run[r].out = input[r].in

\* C7: after an exit, action or entry function returned a value that is
\* neither undefined nor an error, that value is the current one: the next
\* execution (the action after the exit function, the entry function after
\* the action, the next condition after the entry function) is given it,
\* and Run returns it when nothing more is executed.
C7_ReturnedValueReplaces ==
    \A r \in Runs :
        LET mine == LoggedBy(r) IN
        \A k \in 1..Len(mine) :
            (mine[k].kind \in HookKinds /\ mine[k].ok
                    /\ ~IsUndefined(mine[k].out) /\ ~IsError(mine[k].out)) =>
                IF k < Len(mine)
                THEN mine[k + 1].v = mine[k].out
                ELSE run[r].pc # "get_out" =>
                        Current(run[r]) = mine[k].out /\ run[r].err = ""

\* the action replaced the value, the entry function and then a condition
\* were given the new value, and Run returned it
C7_Witness ==
    \E r \in Runs :
        LET mine == LoggedBy(r) IN
        /\ run[r].pc = "done"
        /\ run[r].err = ""
        /\ Len(mine) = 3
        /\ mine[1].kind = "action"
        /\ mine[1].out = Foobar
        /\ mine[2].kind = "entry"
        /\ IsUndefined(mine[2].out)
        /\ mine[3].kind = "condition"
        /\ mine[3].v = Foobar
        /\ run[r].out = Foobar
        /\ input[r].in # Foobar

\* in the current round every transition of the current state has a
\* condition, and each was executed and returned a falsy value
NoneAvailable(r) ==
    LET list == MapGetList(m.transitions, run[r].src)
        cs == Logged(r, run[r].steps, {"condition"})
    IN  /\ Len(cs) = Len(list)
        /\ \A j \in 1..Len(list) :
            /\ list[j].condition # ""
            /\ cs[j].fn = list[j].condition
            /\ ~Failed(cs[j])
            /\ ~Bool(cs[j].out)

\* C8: Run has returned without an error only if no transition is
\* available in the current state (it has no list, or each condition of its
\* list returned falsy), what it returned is the current value, and nothing
\* was executed after the last condition; and once no transition is
\* available the run can only return, without an error.
C8_HaltsWhenNoneAvailable ==
    \A r \in Runs :
        /\ (run[r].pc = "done" /\ run[r].err = "") =>
            /\ NoneAvailable(r)
            /\ run[r].out = run[r].value
            /\ Logged(r, run[r].steps, HookKinds) = <<>>
            /\ LET mine == LoggedBy(r) IN
                mine # <<>> =>
                    run[r].out = IF IsUndefined(mine[Len(mine)].out)
                                    \/ mine[Len(mine)].kind = "condition"
                                 THEN mine[Len(mine)].v
                                 ELSE mine[Len(mine)].out
        /\ NoneAvailable(r) =>
            /\ run[r].pc \in {"get_out", "eval", "done"}
            /\ run[r].pc = "done" => run[r].err = ""

\* Run has returned after both conditions of the start state returned falsy
C8_Witness ==
    \E r \in Runs :
        /\ run[r].pc = "done"
        /\ run[r].err = ""
        /\ Len(Logged(r, 0, {"condition"})) = 2
        /\ run[r].out = input[r].in

\* C9: nothing is evaluated past a transition without a condition: no
\* condition is executed, and no transition is selected, that comes after
\* one in the list of its source state; and the transition without a
\* condition is selected with nothing executed for it.
C9_UnconditionalShortCircuits ==
    \A r \in Runs :
        /\ \A k \in 1..Len(log) :
            (log[k].run = r /\ log[k].kind = "condition") =>
                \A j \in 1..log[k].i :
                    MapGetList(m.transitions, log[k].src)[j].condition # ""
        /\ InDoTransition(run[r]) =>
            \A j \in 1..(run[r].i - 1) :
                MapGetList(m.transitions, run[r].src)[j].condition # ""
        /\ (run[r].pc = "exit" /\ run[r].t.condition = "") =>
            Len(Logged(r, run[r].steps, {"condition"})) = run[r].i - 1

\* a transition without a condition has been taken although a transition
\* with a condition follows it in the list
C9_Witness ==
    \E r \in Runs :
        LET list == MapGetList(m.transitions, input[r].src) IN
        /\ run[r].pc = "done"
        /\ run[r].steps = 1
        /\ Len(list) = 2
        /\ list[1].condition = ""
        /\ list[2].condition # ""
        /\ list[1].dst # list[2].dst
        /\ log = <<>>

\* C10: a condition that returns an error object, or whose invocation
\* fails, is the last thing the run executes: Run returns that error and a
\* nil value, no exit, action or entry function is executed in that round
\* and no later condition is.
C10_ConditionErrorAborts ==
    \A r \in Runs :
        LET mine == LoggedBy(r) IN
        \A k \in 1..Len(mine) :
            (mine[k].kind = "condition" /\ Failed(mine[k])) =>
                /\ k = Len(mine)
                /\ Logged(r, mine[k].step, HookKinds) = <<>>
                /\ run[r].pc \in {"get_out", "done"}
                /\ run[r].pc = "done" =>
                    /\ run[r].err = ErrorOf(mine[k])
                    /\ run[r].out = NilVariable
                    /\ run[r].src = mine[k].src

\* the first condition returned an error object and Run returned the
\* error, the second transition of the list not being looked at
C10_Witness ==
    \E r \in Runs :
        LET mine == LoggedBy(r)
            list == MapGetList(m.transitions, input[r].src)
        IN  /\ run[r].pc = "done"
            /\ run[r].err = "error: \"an error occurred\""
            /\ Len(mine) = 1
            /\ mine[1].kind = "condition"
            /\ Len(list) = 2
            /\ list[2].condition = ""


\* the last call made on the Builder
LastCall == calls[Len(calls)]

\* the calls of one kind made so far, in order
CallsOf(op) == SelectSeq(calls, LAMBDA c : c.op = op)

\* the names passed to State so far
DeclaredStates == {CallsOf("State")[i].name : i \in 1..Len(CallsOf("State"))}

\* no state with an empty name is declared and both ends of every
\* Transition call are declared
WellFormed ==
    /\ "" \notin DeclaredStates
    /\ \A i \in 1..Len(CallsOf("Transition")) :
        /\ CallsOf("Transition")[i].name \in DeclaredStates
        /\ CallsOf("Transition")[i].dst \in DeclaredStates

\* C11: a Builder on which an empty state name was declared, or on which a
\* Transition call named a source or a destination that no State call
\* named, has no order of its maps in which validate returns nil; so a
\* Validate call that returned nil was made on a Builder without either.
C11_ValidateStructure ==
    /\ ~WellFormed => validate(b) # {}
    /\ (calls # <<>> /\ LastCall.op \in {"Validate", "ValidateCompile"}) =>
            (ret.err = <<>> => WellFormed)

\* Validate returned an error on a Builder with two declared states that
\* each fail a check, so that the error depends on the order
C11_Witness ==
    /\ calls # <<>>
    /\ LastCall.op = "Validate"
    /\ ret.err # <<>>
    /\ "" \in DeclaredStates
    /\ Cardinality(validate(b)) = 2


\* what the user script exports under fn can be called
Invocable(fn) ==
    UserLookup(fn).kind \in {"CompiledFunction", "Closure", "BuiltinFunction"}

\* C12: for the one function name a Builder refers to, Validate returns
\* function not found when the script exports nothing under it, not
\* callable when what it exports cannot be called, wrong number of
\* arguments (want 3, got N) when it can be called with N # 3 parameters,
\* and nil only when it can be called with exactly 3.
C12_ValidateFuncCases ==
    \A fn \in AllFuncNames :
        (calls # <<>> /\ LastCall.op = "Validate" /\ NamesOf(b) \ {""} = {fn}) =>
            ret.err =
                CASE UserLookup(fn).kind = "Undefined" -> <<"function not found", fn>>
                  [] ~Invocable(fn) /\ UserLookup(fn).kind # "Undefined" ->
                        <<"not callable", fn>>
                  [] Invocable(fn) /\ UserLookup(fn).n # 3 ->
                        <<"wrong number of arguments", fn, 3, UserLookup(fn).n>>
                  [] OTHER -> <<>>

\* Validate has returned nil on a Builder whose one function is the
\* builtin function of one parameter
C12_Witness ==
    /\ calls # <<>>
    /\ LastCall.op = "Validate"
    /\ NamesOf(b) \ {""} = {"len"}
    /\ ret.err = <<>>


\* the declared states that a Transition call leaves for an undeclared one
DanglingSources ==
    {CallsOf("Transition")[i].name : i \in
        {j \in 1..Len(CallsOf("Transition")) :
            /\ CallsOf("Transition")[j].name \in DeclaredStates
            /\ CallsOf("Transition")[j].dst \notin DeclaredStates}}

\* the Builder has no other defect than undeclared destinations
OnlyDestinationsMissing ==
    /\ "" \notin DeclaredStates
    /\ \A i \in 1..Len(CallsOf("Transition")) :
            CallsOf("Transition")[i].name \in DeclaredStates
    /\ \A fn \in NamesOf(b) \ {""} : ThreeParameters(fn)

\* C13: Validate on a Builder with a transition from a declared state s to
\* an undeclared destination returns an error; an error about a state not
\* found never names a state that is only a destination; and when
\* undeclared destinations are all that is wrong, the error is state not
\* found with the name of such a source s.
C13_MissingDestinationNamesSource ==
    (calls # <<>> /\ LastCall.op = "Validate" /\ DanglingSources # {}) =>
        /\ ret.err # <<>>
        /\ ret.err[1] = "state not found" =>
            \E i \in 1..Len(CallsOf("Transition")) :
                CallsOf("Transition")[i].name = ret.err[2]
        /\ OnlyDestinationsMissing =>
            /\ ret.err[1] = "state not found"
            /\ ret.err[2] \in DanglingSources
            /\ Len(ret.err) = 2

\* Validate has returned state 's1' not found for a transition from the
\* declared s1 to the undeclared s2
C13_Witness ==
    /\ calls # <<>>
    /\ LastCall.op = "Validate"
    /\ DeclaredStates = {"s1"}
    /\ Len(CallsOf("Transition")) = 1
    /\ CallsOf("Transition")[1].name = "s1"
    /\ CallsOf("Transition")[1].dst = "s2"
    /\ ret.err = <<"state not found", "s1">>


\* the machine mm holds what the Builder bb holds: the same transition
\* lists and the same non-empty entry and exit names
Holds(mm, bb) ==
    /\ mm.transitions = bb.transitions
    /\ \A name \in DOMAIN bb.entryFns \cup DOMAIN mm.entryFns :
            MapGet(mm.entryFns, name) = MapGet(bb.entryFns, name)
    /\ \A name \in DOMAIN bb.exitFns \cup DOMAIN mm.exitFns :
            MapGet(mm.exitFns, name) = MapGet(bb.exitFns, name)

\* C14: Compile returns a machine and no error whatever the Builder holds,
\* well formed or not.  Running it, the execution of a name the script
\* does not export fails and ends the run with an error, a run returns an
\* error only after an execution of its own that failed, and a run that
\* has done a transition goes on in its destination, declared or not.
C14_CompileDoesNotValidate ==
    /\ [](/\ (calls # <<>> /\ LastCall.op = "Compile") =>
                ret.err = <<>> /\ ~ret.nil /\ Holds(ret.m, b)
          /\ \A k \in 1..Len(log) :
                UserLookup(log[k].fn).kind = "Undefined" =>
                    /\ ~log[k].ok
                    /\ k = Len(log)
                    /\ run[log[k].run].pc = "done"
                    /\ run[log[k].run].err = "runtime error"
          /\ \A r \in Runs :
                (run[r].pc = "done" /\ run[r].err # "") =>
                    LoggedBy(r) # <<>> /\ Failed(LoggedBy(r)[Len(LoggedBy(r))]))
    /\ [][\A r \in Runs :
            (run[r].pc = "advance" /\ run'[r] # run[r]) =>
                /\ run'[r].pc = "eval"
                /\ run'[r].src = run[r].t.dst
                /\ run'[r].value = run[r].in]_vars

\* on the machine of a Builder without any declared state, a run has gone
\* from s1 to s2 and has ended there with the error of calling fn4
C14_Witness ==
    /\ DeclaredStates = {}
    /\ \E r \in Runs :
        /\ run[r].pc = "done"
        /\ run[r].steps = 1
        /\ run[r].src = "s2"
        /\ run[r].err = "runtime error"
        /\ log[Len(log)].fn = "fn4"


\* the Builder that the calls cs make of New(script)
RECURSIVE Replay(_)
Replay(cs) ==
    IF cs = <<>> THEN New
    ELSE LET c == cs[Len(cs)]
             before == Replay(SubSeq(cs, 1, Len(cs) - 1))
         IN  CASE c.op = "State" -> State(before, c.name, c.f1, c.f2)
               [] c.op = "Transition" -> Transition(before, c.name, c.dst, c.f1, c.f2)
               [] OTHER -> before

\* the position of the last Compile call (0: none was made)
LastCompile ==
    IF \E i \in 1..Len(calls) : calls[i].op = "Compile"
    THEN CHOOSE i \in 1..Len(calls) :
            /\ calls[i].op = "Compile"
            /\ \A j \in (i + 1)..Len(calls) : calls[j].op # "Compile"
    ELSE 0

\* the machine of the Builder as it was when Compile was last called
Snapshot == compile(Replay(SubSeq(calls, 1, LastCompile)))

\* C15: the machine is the one compiled from the Builder as it was at the
\* last Compile call, whatever was called on the Builder since; a Run of it
\* that has returned has returned what that machine gives; and only a
\* Compile call changes the machine, no step of a Run and no State or
\* Transition call does.
C15_MachineIsSnapshot ==
    /\ [](LastCompile > 0 =>
            /\ m = Snapshot
            /\ \A r \in Runs :
                LET alone == RunFor(Snapshot, input[r].src, input[r].in, MaxSteps) IN
                (run[r].pc = "done" /\ alone.halted) =>
                    run[r].out = alone.out /\ run[r].err = alone.err)
    /\ [][m' # m =>
            /\ Len(calls') = Len(calls) + 1
            /\ calls'[Len(calls')].op = "Compile"]_vars

\* after Compile a State call has given the declared destination s2 an
\* entry function, and a Run has gone to s2 and returned without running it
C15_Witness ==
    /\ LastCompile = 2
    /\ Len(calls) = 3
    /\ LastCall.op = "State"
    /\ LastCall.name = "s2"
    /\ LastCall.f1 = "fn4"
    /\ \E r \in Runs :
        /\ run[r].pc = "done"
        /\ run[r].src = "s2"
        /\ run[r].err = ""
        /\ log = <<>>


\* the executions of Run call r, without the number of the call
Executions(r) ==
    [k \in 1..Len(LoggedBy(r)) |->
        [kind |-> LoggedBy(r)[k].kind, step |-> LoggedBy(r)[k].step,
         i |-> LoggedBy(r)[k].i, fn |-> LoggedBy(r)[k].fn,
         src |-> LoggedBy(r)[k].src, dst |-> LoggedBy(r)[k].dst,
         v |-> LoggedBy(r)[k].v, ok |-> LoggedBy(r)[k].ok,
         out |-> LoggedBy(r)[k].out]]

\* C16: of two Run calls with the same start state and the same value, the
\* one made later, whatever was run before it, begins in that start state,
\* executes step by step what the earlier one executed, with the same
\* sources, destinations, values and results, and once both have returned
\* they have ended in the same state after the same number of transitions
\* with the same value and the same error.
C16_RunIsDeterministic ==
    \A r1, r2 \in Runs :
        (r1 < r2 /\ input[r1] = input[r2]) =>
            /\ Len(Executions(r2)) <= Len(Executions(r1))
            /\ Executions(r2) = SubSeq(Executions(r1), 1, Len(Executions(r2)))
            /\ run[r2].steps <= run[r1].steps
            /\ run[r2].steps = 0 /\ LoggedBy(r2) = <<>> /\ run[r2].pc = "eval" =>
                    run[r2].src = input[r2].src
            /\ run[r2].pc = "done" =>
                /\ Executions(r2) = Executions(r1)
                /\ run[r2].src = run[r1].src
                /\ run[r2].steps = run[r1].steps
                /\ run[r2].out = run[r1].out
                /\ run[r2].err = run[r1].err

\* the first and the third Run call were given the same value and the one
\* between them another; all have returned, the first and the third in s2
\* with a value that the action computed from theirs
C16_Witness ==
    /\ Len(run) = 3
    /\ input[1] = input[3]
    /\ input[2] # input[1]
    /\ \A r \in Runs : run[r].pc = "done"
    /\ run[3].src = "s2"
    /\ run[3].err = ""
    /\ run[3].out # run[2].out
    /\ Len(LoggedBy(3)) > 0


\* C17: a ValidateCompile call that returns an error returns one that
\* validate gives for the Builder, and no machine; one that returns no
\* error was made on a Builder for which validate gives nil, and returns
\* what Compile returns for that Builder.
C17_ValidateThenCompile ==
    (calls # <<>> /\ LastCall.op = "ValidateCompile") =>
        IF ret.err # <<>>
        THEN ret.err \in validate(b) /\ ret.nil /\ ret.m = NoMachine
        ELSE validate(b) = {} /\ ret = CompileReturns(b) /\ m = ret.m

\* ValidateCompile has returned an error and no machine for a Builder
\* that holds a transition
C17_Witness ==
    /\ calls # <<>>
    /\ LastCall.op = "ValidateCompile"
    /\ ret.err # <<>>
    /\ ret.nil
    /\ b.transitions # <<>>

\* a call of the given kinds has just been added to calls
JustCalled(ops) ==
    /\ Len(calls') = Len(calls) + 1
    /\ calls'[Len(calls')].op \in ops

\* C18: a Validate, Compile or ValidateCompile call leaves the Builder as
\* it was: the same declared states with the same entry and exit names
\* and the same transition lists, whether it returns an error or not.
C18_ValidateKeepsBuilder ==
    [][JustCalled({"Validate", "Compile", "ValidateCompile"}) => b' = b]_vars

\* Validate has returned an error for a Builder that declares a state
\* with an empty name and an empty entry function
C18_Witness ==
    /\ Len(calls) = 3
    /\ LastCall.op = "Validate"
    /\ ret.err # <<>>
    /\ "" \in DOMAIN b.entryFns
    /\ \E name \in DOMAIN b.entryFns : b.entryFns[name] = ""

\* the last State call made with the name
LastState(name) ==
    LET cs == SelectSeq(CallsOf("State"), LAMBDA c : c.name = name)
    IN  cs[Len(cs)]

\* C19: the declared states are the names passed to State; the entry and
\* exit names of each are those of the last State call made with its
\* name, an empty one included, and then the compiled machine has none
\* for it; and a State call leaves every transition list as it was.
C19_LastStateWins ==
    /\ [](/\ DOMAIN b.entryFns = DeclaredStates
          /\ DOMAIN b.exitFns = DeclaredStates
          /\ \A name \in DeclaredStates :
                /\ b.entryFns[name] = LastState(name).f1
                /\ b.exitFns[name] = LastState(name).f2
                /\ name \in DOMAIN compile(b).entryFns <=> LastState(name).f1 # ""
                /\ name \in DOMAIN compile(b).exitFns <=> LastState(name).f2 # "")
    /\ [][JustCalled({"State"}) => b'.transitions = b.transitions]_vars

\* s1 was declared with an entry function and then again without one, and
\* the machine compiled after that has no entry function for s1
C19_Witness ==
    /\ Len(calls) = 3
    /\ calls[1].op = "State" /\ calls[1].name = "s1" /\ calls[1].f1 = "fn1"
    /\ calls[2].op = "State" /\ calls[2].name = "s1" /\ calls[2].f1 = ""
    /\ calls[3].op = "Compile"
    /\ "s1" \notin DOMAIN ret.m.entryFns

\* the records of the Transition calls made with the source src, in order
TransitionsFrom(src) ==
    LET cs == SelectSeq(CallsOf("Transition"), LAMBDA c : c.name = src)
    IN  [k \in 1..Len(cs) |->
            [dst |-> cs[k].dst, condition |-> cs[k].f1, action |-> cs[k].f2]]

\* C20: the list of each source state is the Transition calls made with
\* that source, in the order they were made, in the Builder and in the
\* machine Compile returns; and a Transition call adds its record at the
\* end of the list of its source and changes no other list and no state.
C20_TransitionAppends ==
    /\ [](/\ DOMAIN b.transitions =
                {CallsOf("Transition")[i].name : i \in 1..Len(CallsOf("Transition"))}
          /\ \A src \in DOMAIN b.transitions : b.transitions[src] = TransitionsFrom(src)
          /\ (calls # <<>> /\ LastCall.op = "Compile") =>
                /\ DOMAIN ret.m.transitions = DOMAIN b.transitions
                /\ \A src \in DOMAIN b.transitions :
                        ret.m.transitions[src] = TransitionsFrom(src))
    /\ [][JustCalled({"Transition"}) =>
            LET c == calls'[Len(calls')] IN
            /\ b'.entryFns = b.entryFns
            /\ b'.exitFns = b.exitFns
            /\ b'.transitions[c.name] =
                    Append(MapGetList(b.transitions, c.name),
                           [dst |-> c.dst, condition |-> c.f1, action |-> c.f2])
            /\ \A src \in DOMAIN b.transitions \ {c.name} :
                    b'.transitions[src] = b.transitions[src]]_vars

\* two different transitions were declared for s1 and the machine
\* compiled after that holds them in the order of the calls
C20_Witness ==
    /\ Len(calls) = 3
    /\ calls[1].op = "Transition" /\ calls[1].name = "s1"
    /\ calls[2].op = "Transition" /\ calls[2].name = "s1"
    /\ calls[1].dst # calls[2].dst
    /\ calls[3].op = "Compile"
    /\ Len(ret.m.transitions["s1"]) = 2
    /\ ret.m.transitions["s1"][1].dst = calls[1].dst


\* fn is a name that validation has to reject
Invalid(fn) == fn # "" /\ ~ThreeParameters(fn)

\* the error is about the function fn
IsFuncError(err, fn) ==
    /\ err # <<>>
    /\ err[1] \in {"function not found", "not callable", "wrong number of arguments"}
    /\ err[2] = fn

\* fn is the first invalid name of a state (its entry function, or its
\* exit function with a valid or empty entry function) or of a transition
\* (its condition, or its action with a valid or empty condition)
FirstInvalidSomewhere(fn) ==
    \/ \E name \in DeclaredStates :
        \/ LastState(name).f1 = fn
        \/ LastState(name).f2 = fn /\ ~Invalid(LastState(name).f1)
    \/ \E i \in 1..Len(CallsOf("Transition")) :
        \/ CallsOf("Transition")[i].f1 = fn
        \/ CallsOf("Transition")[i].f2 = fn /\ ~Invalid(CallsOf("Transition")[i].f1)

\* C21: an error of Validate about a function names the first invalid
\* name of some state or transition, the entry function before the exit
\* function and the condition before the action; so for a Builder with
\* one state, or one transition, whose two names are both invalid the
\* error names the entry function, or the condition.
C21_EntryBeforeExit ==
    (calls # <<>> /\ LastCall.op = "Validate") =>
        /\ \A fn \in NamesOf(b) \ {""} :
                IsFuncError(ret.err, fn) => FirstInvalidSomewhere(fn)
        /\ (Len(CallsOf("State")) = 1 /\ Len(CallsOf("Transition")) = 0
                /\ "" \notin DeclaredStates
                /\ Invalid(CallsOf("State")[1].f1) /\ Invalid(CallsOf("State")[1].f2)) =>
                    IsFuncError(ret.err, CallsOf("State")[1].f1)
        /\ (Len(CallsOf("Transition")) = 1
                /\ WellFormed
                /\ \A i \in 1..Len(CallsOf("State")) :
                        CallsOf("State")[i].f1 = "" /\ CallsOf("State")[i].f2 = ""
                /\ Invalid(CallsOf("Transition")[1].f1)
                /\ Invalid(CallsOf("Transition")[1].f2)) =>
                    IsFuncError(ret.err, CallsOf("Transition")[1].f1)

\* Validate has returned the error of the entry function of a state whose
\* exit function is another invalid name
C21_Witness ==
    /\ calls # <<>>
    /\ LastCall.op = "Validate"
    /\ Len(CallsOf("State")) = 1
    /\ CallsOf("State")[1].f1 = "foo"
    /\ CallsOf("State")[1].f2 = "fn4"
    /\ ret.err = <<"not callable", "foo">>


\* the states a transition of the machine leads to
Destinations(mm) ==
    UNION {{mm.transitions[src][i].dst : i \in DOMAIN mm.transitions[src]} :
                src \in DOMAIN mm.transitions}

\* every function the machine names takes the three arguments and returns
\* no error, whatever the value
NeverSignals(mm) ==
    \A fn \in (NamesOf(mm) \ {""}) :
        /\ ThreeParameters(fn)
        /\ \A v \in Inputs \cup {Undefined, Foobar} :
                \A src, dst \in StateNames : ~IsError(UserBody(fn, src, dst, v))

\* the state start and every state a transition leads to have an
\* unconditional transition, so that whatever state the run is in one of
\* its transitions is satisfied
AlwaysSatisfied(mm, start) ==
    \A s \in {start} \cup Destinations(mm) :
        \E i \in DOMAIN MapGetList(mm.transitions, s) :
            mm.transitions[s][i].condition = ""

\* C22: a Run on a machine whose transitions are always satisfied (the
\* start state and every destination have an unconditional transition)
\* and whose functions never signal an error does not halt, however many
\* transitions it has taken: it returns neither a value nor an error.
C22_NoIterationBound ==
    \A r \in Runs :
        (AlwaysSatisfied(m, input[r].src) /\ NeverSignals(m)) =>
            /\ run[r].pc # "done"
            /\ run[r].err = ""

\* a Run on a machine with an unconditional self-transition has taken as
\* many transitions as the model follows and is about to take one more
C22_Witness ==
    \E r \in Runs :
        /\ AlwaysSatisfied(m, input[r].src) /\ NeverSignals(m)
        /\ \E i \in DOMAIN MapGetList(m.transitions, input[r].src) :
                /\ m.transitions[input[r].src][i].condition = ""
                /\ m.transitions[input[r].src][i].dst = input[r].src
        /\ run[r].steps = MaxSteps
        /\ run[r].pc = "eval"
        /\ run[r].i <= Len(MapGetList(m.transitions, run[r].src))


\* the states run r has been in: its start state and the destination of
\* every transition whose action it has executed
Visited(r) ==
    <<input[r].src>> \o
        [k \in 1..Len(SelectSeq(LoggedBy(r), LAMBDA e : e.kind = "action")) |->
            SelectSeq(LoggedBy(r), LAMBDA e : e.kind = "action")[k].dst]

IsPrefix(p, q) == Len(p) <= Len(q) /\ p = SubSeq(q, 1, Len(p))

Decimal123456 == StringV(<<"1", "2", "3", ".", "4", "5", "6">>)

Decimal123456Visits == <<"S", "N", "N", "N", "P", "F", "F", "F", "E">>

Decimal123456Output == ValidNumber

Decimal12dot34dot56 == StringV(<<"1", "2", ".", "3", "4", ".", "5", "6">>)

Decimal12dot34dot56Visits == <<"S", "N", "N", "P", "F", "F", "X">>

\* "invalid number: .56"
Decimal12dot34dot56Output ==
    StringV(<<"i", "n", "v", "a", "l", "i", "d", " ", "n", "u", "m", "b", "e", "r",
              ":", " ", ".", "5", "6">>)

\* the run r on the value in visits the states of visits, in that order,
\* and returns out with no error from the last of them
VisitsAndReturns(r, in, visits, out) ==
    input[r].in = in =>
        /\ IsPrefix(Visited(r), visits)
        /\ run[r].pc \notin InvokePcs \cup {"exit", "action", "entry", "advance"} =>
                run[r].src = visits[Len(Visited(r))]
        /\ run[r].pc = "done" =>
                /\ Visited(r) = visits
                /\ run[r].err = ""
                /\ run[r].out = out

\* C23: on the machine of the decimals example Run("S", "123.456") goes
\* through S, N, N, N, P, F, F, F, E and returns "valid number", and
\* Run("S", "12.34.56") goes through S, N, N, P, F, F, X and returns
\* "invalid number: .56".
C23_DecimalsExample ==
    \A r \in Runs :
        (m = DecimalsMachine /\ input[r].src = "S") =>
            /\ VisitsAndReturns(r, Decimal123456, Decimal123456Visits,
                                Decimal123456Output)
            /\ VisitsAndReturns(r, Decimal12dot34dot56,
                                Decimal12dot34dot56Visits,
                                Decimal12dot34dot56Output)

\* Run("S", "12.34.56") has returned "invalid number: .56" from the state X
C23_Witness ==
    \E r \in Runs :
        /\ m = DecimalsMachine
        /\ input[r] = [src |-> "S", in |-> Decimal12dot34dot56]
        /\ run[r].pc = "done"
        /\ run[r].src = "X"
        /\ run[r].out = Decimal12dot34dot56Output
        /\ Visited(r) = Decimal12dot34dot56Visits


\* the executions of exit functions, actions and entry functions that run
\* r asked for
HooksOf(r) == SelectSeq(LoggedBy(r), LAMBDA e : e.kind \in HookKinds)

\* the machine has a transition from src to dst
HasTransition(mm, src, dst) ==
    \E i \in DOMAIN MapGetList(mm.transitions, src) :
        mm.transitions[src][i].dst = dst

\* run r is in the middle of a transition, or has returned the error of
\* one of its functions
Underway(r) ==
    \/ InDoTransition(run[r]) /\ run[r].pc # "advance"
    \/ run[r].pc = "done" /\ run[r].err # ""

\* C24: an exit function is executed only as the exit function of the
\* source of a transition of the machine and an entry function only as
\* the entry function of its destination, the first of them for a
\* transition that leaves the start state; each transition the run takes
\* executes at most one of each kind, so a run that has taken k
\* transitions has executed at most k of each; nothing is executed before
\* the first transition is selected, and nothing for the state in which
\* the run halts.
C24_HooksOnlyForTakenTransitions ==
    \A r \in Runs :
        /\ \A j \in 1..Len(HooksOf(r)) :
            LET e == HooksOf(r)[j] IN
                /\ HasTransition(m, e.src, e.dst)
                /\ e.kind = "exit" => e.fn = MapGet(m.exitFns, e.src)
                /\ e.kind = "entry" => e.fn = MapGet(m.entryFns, e.dst)
                /\ e.step = 0 => e.src = input[r].src
                /\ e.step <= run[r].steps
                /\ (e.step = run[r].steps /\ run[r].pc # "advance") => Underway(r)
        /\ \A k \in 0..run[r].steps : \A kind \in HookKinds :
                Len(Logged(r, k, {kind})) <= 1
        /\ \A kind \in HookKinds :
                Len(SelectSeq(HooksOf(r), LAMBDA e : e.kind = kind))
                    <= run[r].steps + (IF Underway(r) \/ run[r].pc = "advance"
                                       THEN 1 ELSE 0)
        /\ (run[r].pc = "done" /\ run[r].err = "") =>
                /\ \A kind \in HookKinds :
                        Len(SelectSeq(HooksOf(r), LAMBDA e : e.kind = kind))
                            <= run[r].steps
                /\ \A j \in 1..Len(HooksOf(r)) :
                        HooksOf(r)[j].step < run[r].steps

\* a Run from a start state with an entry function has halted, after a
\* transition, in another state with an exit function; the one was not
\* entered and the other not left
C24_Witness ==
    \E r \in Runs :
        /\ run[r].pc = "done" /\ run[r].err = ""
        /\ run[r].steps >= 1
        /\ run[r].src # input[r].src
        /\ MapGet(m.entryFns, input[r].src) # ""
        /\ MapGet(m.exitFns, run[r].src) # ""
        /\ \A j \in 1..Len(HooksOf(r)) :
                /\ HooksOf(r)[j].kind = "entry" => HooksOf(r)[j].dst # input[r].src
                /\ HooksOf(r)[j].kind = "exit" => HooksOf(r)[j].src # run[r].src


\* what one step does to the value and the current state of run r: the
\* value changes only when an exit function, an action or an entry
\* function has returned, and then to what it returned; the state changes
\* only when doTransition has returned, to the destination; a step of a
\* condition, or one that passes over a transition, changes neither.  (A
\* Run that returns an error returns no value.)
ValueStep(r) ==
    /\ (run'[r].err = "" /\ Current(run'[r]) # Current(run[r])) =>
            /\ run[r].pc = "get_out"
            /\ run[r].call.kind \in HookKinds
            /\ Current(run'[r]) = invokeScript.out
            /\ LoggedBy(r)[Len(LoggedBy(r))].kind = run[r].call.kind
            /\ LoggedBy(r)[Len(LoggedBy(r))].out = Current(run'[r])
    /\ run'[r].src # run[r].src =>
            /\ run[r].pc = "advance"
            /\ run'[r].src = run[r].t.dst
    /\ (run[r].pc \in InvokePcs /\ run[r].call.kind = "condition"
            /\ run'[r].err = "") =>
            /\ Current(run'[r]) = Current(run[r])
            /\ run'[r].value = run[r].value
    /\ (run[r].pc = "eval" /\ run'[r].err = "") =>
            /\ Current(run'[r]) = Current(run[r])
            /\ run'[r].value = run[r].value

\* C25: in every step of a run the value changes only at the return of
\* an exit function, an action or an entry function, to the value that
\* was returned; the steps of eval, whatever the conditions return and
\* however many of them are evaluated, leave the value and the current
\* state as they are.
C25_ValueChangesOnlyAtHooks ==
    [][\A r \in Runs : ValueStep(r)]_vars

\* a first condition has returned a falsy value and a second one a truthy
\* string, the second transition is selected, and the value is still the
\* one Run was called with
C25_Witness ==
    \E r \in Runs :
        /\ run[r].pc = "exit"
        /\ run[r].steps = 0
        /\ run[r].i = 2
        /\ Len(Logged(r, 0, {"condition"})) = 2
        /\ Logged(r, 0, {"condition"})[2].out = Foobar
        /\ run[r].in = input[r].in
        /\ run[r].src = input[r].src


\* C26: on a machine that ValidateCompile returned, a Run that was
\* started at a declared state is in a declared state at every step, the
\* selected transition leads to a declared state, and the state it halts
\* in is a declared state.
C26_CurrentStateDeclared ==
    \A r \in Runs :
        (LastCall.op = "ValidateCompile" /\ ~ret.nil
                /\ input[r].src \in DeclaredStates) =>
            /\ run[r].src \in DeclaredStates
            /\ InDoTransition(run[r]) => run[r].t.dst \in DeclaredStates

\* a Run started at a declared state of a machine on whose Builder another
\* state was not declared has taken a transition and halted in a declared
\* state other than the one it started at
C26_Witness ==
    \E r \in Runs :
        /\ LastCall.op = "ValidateCompile" /\ ~ret.nil
        /\ input[r].src \in DeclaredStates
        /\ \E i \in 1..Len(DeclarableNames) : DeclarableNames[i] \notin DeclaredStates
        /\ run[r].pc = "done" /\ run[r].err = ""
        /\ run[r].steps = 1
        /\ run[r].src # input[r].src
        /\ run[r].src \in DeclaredStates


\* the states that appear in the transition table, as a source or as a
\* destination
TableStates(mm) ==
    {src \in DOMAIN mm.transitions : mm.transitions[src] # <<>>}
        \cup Destinations(mm)

Successors(mm, src) ==
    {MapGetList(mm.transitions, src)[i].dst :
        i \in DOMAIN MapGetList(mm.transitions, src)}

\* the states reached from a state of S by one to k transitions
RECURSIVE ReachedFrom(_, _, _)
ReachedFrom(mm, S, k) ==
    IF k = 0 THEN {}
    ELSE LET N == UNION {Successors(mm, src) : src \in S}
         IN  N \cup ReachedFrom(mm, N, k - 1)

\* the graph of the transitions has no cycle
Acyclic(mm) ==
    \A src \in TableStates(mm) :
        src \notin ReachedFrom(mm, {src}, Cardinality(TableStates(mm)))

\* one fewer than the number of states of the table, and none for a table
\* without transitions
LongestPath(mm) ==
    IF TableStates(mm) = {} THEN 0 ELSE Cardinality(TableStates(mm)) - 1

\* C27, as stated: a Run on a machine whose transitions form no cycle has
\* halted after at most one transition fewer than there are distinct
\* states in the transition table.
C27_AtMostStatesMinusOne ==
    \A r \in Runs :
        (Acyclic(m) /\ run[r].pc = "done") =>
            run[r].steps <= Cardinality(TableStates(m)) - 1

\* C27, amended: a Run on a machine whose transitions form no cycle
\* halts, and it never has taken more transitions than one fewer than
\* there are distinct states in the transition table; on a machine
\* without transitions, whose table has no states, it takes none.
C27_AcyclicHalts ==
    /\ Acyclic(m) => <>(run[1].pc = "done")
    /\ [](Acyclic(m) => run[1].steps <= LongestPath(m))

\* a Run on a machine whose transitions are a path through three states
\* has halted after two transitions
C27_Witness ==
    \E r \in Runs :
        /\ Acyclic(m)
        /\ Cardinality(TableStates(m)) = 3
        /\ run[r].pc = "done" /\ run[r].err = ""
        /\ run[r].steps = 2

====
